---- MODULE Spec2Model ----
(***************************************************************************)
(* Market-data gateway, orchestrator and metric processors of the crypto   *)
(* dashboard (services/binanceService.ts, services/mathUtils.ts, App.tsx). *)
(*                                                                         *)
(* JavaScript runs every handler to completion, so one action is one       *)
(* macro-step between two awaits: the synchronous prefix of                *)
(* getDashboardData, the arrival of one transport response, the            *)
(* continuation after a Promise.all, the continuation of App.fetchData.    *)
(*                                                                         *)
(* A candle series is carried intensionally: its length, the symbol and    *)
(* the run whose request obtained it, and the pattern of its volumes.      *)
(***************************************************************************)
EXTENDS Integers, Sequences, FiniteSets, TLC

VARIABLES
  klineCache,    \* module-level cache of candle series, by request key
  fundingCache,  \* module-level cache of funding histories, by symbol
  runs,          \* the invocations of getDashboardData, by number
  started,       \* how many invocations have been started
  loading,       \* App: the loading flag (the refresh control is disabled by it)
  error,         \* App: the error message is shown
  now,           \* Date.now(), in days
  pin,           \* input handed to a processor or statistics function
  px             \* what it returned

vars == <<klineCache, fundingCache, runs, started, loading, error, now, pin, px>>

(***************************************************************************)
(* Bounds of the model.                                                    *)
(***************************************************************************)
NumAssets == 2
MaxRuns == 2
MaxLen == 3      \* longest dataset handed to a statistics function
MaxAbs == 2      \* its values lie in -MaxAbs..MaxAbs

(***************************************************************************)
(* types.ts                                                                *)
(***************************************************************************)
AllAssets ==
  << "BTC", "ETH", "SOL", "ADA", "AVAX", "DOT", "LINK", "NEAR", "XLM",
     "APT", "SUI", "AAVE", "CRO", "XRP", "HBAR", "MNT", "TON", "WLFI",
     "ZEC", "BNB", "ENA", "UNI", "TRX", "DOGE", "HYPE", "TAO", "ASTER",
     "ICP", "PEPE", "ONDO", "ARB", "TRUMP", "PUMP", "VIRTUAL", "PENDLE",
     "JUP", "RENDER", "MORPHO", "PENGU", "BONK", "ALGO", "XMR", "WLD",
     "ATOM", "SHIB", "SKY", "TIA", "SEI", "SPX6900", "AERO" >>

\* The gateway model runs on the first NumAssets symbols of the universe.
TARGET_ASSETS == SubSeq(AllAssets, 1, NumAssets)

AssetSet == {TARGET_ASSETS[i] : i \in 1..Len(TARGET_ASSETS)}

Range(s) == {s[i] : i \in 1..Len(s)}

NULL == "null"

(***************************************************************************)
(* Data.  A candle series (Kline[]) is carried by its description:         *)
(*   sym, run : the pair the exchange answered for, the run that asked     *)
(*   n        : its length; candles are daily and every series ends on the *)
(*              same day, so a candle is named by its offset j from the    *)
(*              latest one (j = 0) and its index in the array is n - 1 - j *)
(*   c0, c1   : the close is c0 on even offsets and c1 on odd ones          *)
(*   lo, hi, from, to : the volume is hi on the offsets from..to and lo    *)
(*              elsewhere                                                  *)
(*   e7, e90  : the rounding residue of the two floating-point divisions   *)
(*              sum/7 and sum/90 over these volumes, in units of the last  *)
(*              place (0 when the quotient is a representable number)      *)
(*   rs       : the value of the quotient cumRet / std of its closes, the  *)
(*              risk-normalised return, which is not evaluated in integers *)
(*              (the code returns 0, not rs, when the closes are constant) *)
(* A funding history (FundingRate[]) is a sequence of observations         *)
(* [fundingTime, fundingRate] with the symbol and run it was fetched for,  *)
(* and cs, the value of the quotient mean / std of its rates.              *)
(***************************************************************************)
FlatProfile == [c0 |-> 1, c1 |-> 1, lo |-> 1, hi |-> 1, from |-> 0, to |-> 0,
                e7 |-> 0, e90 |-> 0, rs |-> 0]

Series(sym, run, n, p) ==
  [sym |-> sym, run |-> run, n |-> n, c0 |-> p.c0, c1 |-> p.c1,
   lo |-> p.lo, hi |-> p.hi, from |-> p.from, to |-> p.to,
   e7 |-> p.e7, e90 |-> p.e90, rs |-> p.rs]

\* The literal [] a fetch returns when it has nothing.
EmptyKlines == Series(NULL, 0, 0, FlatProfile)

EmptyFunding == [sym |-> NULL, run |-> 0, rates |-> << >>, cs |-> 0]

NonArray == [array |-> FALSE]

(***************************************************************************)
(* Transport.  A response is a network error, a non-success status, a      *)
(* success status whose body does not parse, or a parsed JSON body.        *)
(***************************************************************************)
Responses(bodies) ==
  {[status |-> "neterr", json |-> FALSE, body |-> NonArray],
   [status |-> "notok", json |-> FALSE, body |-> NonArray],
   [status |-> "ok", json |-> FALSE, body |-> NonArray]}
  \cup {[status |-> "ok", json |-> TRUE, body |-> b] : b \in bodies}

\* How an attempt of fetchJson ended: "ok" when it returned the parsed body,
\* else what threw inside its try block.
Outcome(resp) ==
  IF resp.status = "ok"
    THEN (IF resp.json THEN "ok" ELSE "badjson")
    ELSE resp.status

\* Candle counts and funding histories the exchange answers with.
KlineCounts == {0, 89, 90}

NinetyDays == 90

FundingRows ==
  {<< >>,
   <<[fundingTime |-> now - (NinetyDays + 1), fundingRate |-> 1]>>,
   <<[fundingTime |-> now - NinetyDays, fundingRate |-> 1]>>}

KlineBodies(symbol, r) ==
  {NonArray} \cup
  {[array |-> TRUE, rows |-> Series(symbol, r, n, FlatProfile)] : n \in KlineCounts}

FundingBodies(symbol, r) ==
  {NonArray} \cup
  {[array |-> TRUE, rows |-> [sym |-> symbol, run |-> r, rates |-> x, cs |-> 0]] :
     x \in FundingRows}

(***************************************************************************)
(* fetchJson.  The first try block: the parsed body is returned when the   *)
(* direct request succeeds and its body parses; every exception of the     *)
(* block (fetch rejecting, the thrown 'Direct fetch failed', res.json()    *)
(* rejecting) lands in the catch, which issues the relay request.          *)
(***************************************************************************)
\* A gateway that goes to the relay whatever the direct request returned.
fetchJsonDirectAlwaysRelay(resp) ==
  [tag |-> "proxy", body |-> NonArray]

fetchJsonDirect(resp) ==
  IF resp.status = "ok" /\ resp.json
    THEN [tag |-> "return", body |-> resp.body]
    ELSE [tag |-> "proxy", body |-> NonArray]

\* The inner try block: the relay's parsed body, or the exception rethrown.
fetchJsonProxy(resp) ==
  IF resp.status = "ok" /\ resp.json
    THEN [tag |-> "return", body |-> resp.body]
    ELSE [tag |-> "throw", body |-> NonArray]

(***************************************************************************)
(* A call of fetchKlines or fetchFundingRates: where it is (st), how many  *)
(* transport requests it has issued (reqs), how its direct and its relay   *)
(* request ended (direct, relay), whether the cache answered it (hit), its *)
(* value (val).  While the relay request is pending, direct tells what     *)
(* threw in the first try block; once the call has settled, only whether   *)
(* the attempt returned ("ok") or not ("failed") is kept.                  *)
(***************************************************************************)
NoFetch(empty) ==
  [st |-> "none", reqs |-> 0, direct |-> "none", relay |-> "none",
   hit |-> FALSE, val |-> empty]

\* fetch(url) of the direct request has been called.
IssueDirect(empty) ==
  [st |-> "direct", reqs |-> 1, direct |-> "pending", relay |-> "none",
   hit |-> FALSE, val |-> empty]

\* fetch(proxyUrl) has been called from the catch block.
IssueProxy(f, resp) ==
  [f EXCEPT !.st = "relay", !.reqs = @ + 1, !.direct = Outcome(resp),
            !.relay = "pending"]

Ended(outcome) == IF outcome = "ok" THEN "ok" ELSE "failed"

\* A cache key without the symbol.
KlineKeyShared(symbol, interval, limit) == <<interval, limit>>

KlineKey(symbol, interval, limit) == <<symbol, interval, limit>>

\* A fetchKlines without its catch block: the exception of fetchJson rejects
\* the call.
fetchKlinesSettleNoCatch(j) ==
  IF j.tag = "throw"
    THEN [st |-> "rejected", val |-> EmptyKlines, write |-> FALSE]
    ELSE IF ~j.body.array
      THEN [st |-> "resolved", val |-> EmptyKlines, write |-> FALSE]
      ELSE [st |-> "resolved", val |-> j.body.rows, write |-> TRUE]

\* A fetchKlines that stores what it returns, the empty list included.
fetchKlinesSettleStoreAll(j) ==
  IF j.tag = "throw"
    THEN [st |-> "resolved", val |-> EmptyKlines, write |-> TRUE]
    ELSE IF ~j.body.array
      THEN [st |-> "resolved", val |-> EmptyKlines, write |-> TRUE]
      ELSE [st |-> "resolved", val |-> j.body.rows, write |-> TRUE]

\* What fetchKlines does with the outcome j of fetchJson: the value it
\* settles with and whether it writes the cache.
fetchKlinesSettle(j) ==
  IF j.tag = "throw"
    THEN [st |-> "resolved", val |-> EmptyKlines, write |-> FALSE]
    ELSE IF ~j.body.array
      THEN [st |-> "resolved", val |-> EmptyKlines, write |-> FALSE]
      ELSE [st |-> "resolved", val |-> j.body.rows, write |-> TRUE]

fetchFundingRatesSettle(j) ==
  IF j.tag = "throw"
    THEN [st |-> "resolved", val |-> EmptyFunding, write |-> FALSE]
    ELSE IF ~j.body.array
      THEN [st |-> "resolved", val |-> EmptyFunding, write |-> FALSE]
      ELSE [st |-> "resolved", val |-> j.body.rows, write |-> TRUE]

\* The call settles after its direct request (relay = "none") or after its
\* relay request ended as relay tells.
Settled(f, relay, s) ==
  [f EXCEPT !.st = s.st, !.direct = Ended(@), !.relay = relay, !.val = s.val]

\* The synchronous prefix of fetchKlines: the cache lookup, else the request.
fetchKlinesCall(cache, symbol, interval, limit) ==
  IF KlineKey(symbol, interval, limit) \in DOMAIN cache
    THEN [st |-> "resolved", reqs |-> 0, direct |-> "none", relay |-> "none",
          hit |-> TRUE, val |-> cache[KlineKey(symbol, interval, limit)]]
    ELSE IssueDirect(EmptyKlines)

fetchFundingRatesCall(cache, symbol) ==
  IF symbol \in DOMAIN cache
    THEN [st |-> "resolved", reqs |-> 0, direct |-> "none", relay |-> "none",
          hit |-> TRUE, val |-> cache[symbol]]
    ELSE IssueDirect(EmptyFunding)

\* A function with one more (or one overwritten) entry.
Put(f, k, v) == [x \in DOMAIN f \cup {k} |-> IF x = k THEN v ELSE f[x]]

EmptyMap == [x \in {} |-> NULL]

(***************************************************************************)
(* Statistics library (mathUtils).  Numbers are integers, in units chosen  *)
(* by the caller so that the divisions of the code come out exact; the     *)
(* one quotient kept unevaluated is the percentile, a fraction num / den.  *)
(***************************************************************************)
RECURSIVE SumTo(_, _)
SumTo(s, k) == IF k = 0 THEN 0 ELSE s[k] + SumTo(s, k - 1)

\* reduce((a, b) => a + b, 0)
SumSeq(s) == SumTo(s, Len(s))

Abs(x) == IF x < 0 THEN -x ELSE x

\* Array.prototype.sort((a, b) => a - b): ascending, stable.
RECURSIVE InsertAsc(_, _)
InsertAsc(x, s) ==
  IF s = << >> THEN <<x>>
  ELSE IF x < s[1] THEN <<x>> \o s
  ELSE <<s[1]>> \o InsertAsc(x, Tail(s))

\* A sort that leaves the array as it is.
Unsorted(s) == s

RECURSIVE SortAsc(_)
SortAsc(s) ==
  IF s = << >> THEN << >>
  ELSE InsertAsc(s[Len(s)], SortAsc(SubSeq(s, 1, Len(s) - 1)))

\* A findIndex with a strict comparison: v > value.
FindIndexGreater(s, value) ==
  IF \E i \in 1..Len(s) : s[i] > value
    THEN (CHOOSE i \in 1..Len(s) :
            /\ s[i] > value
            /\ \A k \in 1..(i - 1) : s[k] <= value) - 1
    ELSE -1

\* Array.prototype.findIndex(v => v >= value), 0-based, -1 when there is none.
FindIndexGeq(s, value) ==
  IF \E i \in 1..Len(s) : s[i] >= value
    THEN (CHOOSE i \in 1..Len(s) :
            /\ s[i] >= value
            /\ \A k \in 1..(i - 1) : s[k] < value) - 1
    ELSE -1

calculatePercentile(data, value, absolute) ==
  IF Len(data) = 0 THEN [num |-> 0, den |-> 1]
  ELSE
    LET processedData == SortAsc(IF absolute
                                   THEN [i \in 1..Len(data) |-> Abs(data[i])]
                                   ELSE data)
        processedValue == IF absolute THEN Abs(value) ELSE value
        found == FindIndexGeq(processedData, processedValue)
        index == IF found = -1 THEN Len(processedData) ELSE found
    IN [num |-> index * 100, den |-> Len(processedData)]

\* A funding percentile whose probe is one more than the current rate, which
\* need not be a value of the dataset.
fundingPercentileOfNext(values) ==
  calculatePercentile(values, values[Len(values)] + 1, TRUE)

\* processFundingMetrics: currentRate = values[values.length - 1] is ranked
\* in values by magnitude.
fundingPercentileOf(values) ==
  calculatePercentile(values, values[Len(values)], TRUE)

\* processVolatilityMetrics: currentVol = volHistory[0] is ranked in
\* volHistory.
volatilityPercentileOf(volHistory) ==
  calculatePercentile(volHistory, volHistory[1], FALSE)

calculateMean(values) ==
  IF Len(values) = 0 THEN 0 ELSE SumSeq(values) \div Len(values)

calculateMedian(values) ==
  IF Len(values) = 0 THEN 0
  ELSE
    LET sorted == SortAsc(values)
        mid == Len(sorted) \div 2       \* 0-based index
    IN IF Len(sorted) % 2 = 0
         THEN (sorted[mid] + sorted[mid + 1]) \div 2
         ELSE sorted[mid + 1]

(***************************************************************************)
(* calculateStdDev and calculateZScore.  The square root is not taken:     *)
(* the deviation is carried as the sum of squares ss over len values       *)
(* (std = sqrt(ss / len)), and a z-score as num / sqrt(ss / len).  e is    *)
(* the rounding residue of the floating-point quotient sum / length, by    *)
(* which the computed mean differs from the exact one.                     *)
(***************************************************************************)
(***************************************************************************)
(* The arrays of a call when it returns.  Array.prototype.sort orders the  *)
(* array it is called on, in place; map and the spread [...a] make a new   *)
(* array.                                                                  *)
(***************************************************************************)
\* A calculatePercentile whose processedData is the array data itself when
\* absolute is not set (processedData = absolute ? data.map(Math.abs) : data):
\* the sort then orders the caller's array.
calculatePercentileArraysAliased(data, absolute) ==
  IF absolute
    THEN [data |-> data,
          processedData |-> SortAsc([i \in 1..Len(data) |-> Abs(data[i])])]
    ELSE [data |-> SortAsc(data), processedData |-> SortAsc(data)]

\* calculatePercentile: processedData is data.map(Math.abs) or [...data], a
\* new array either way, and processedData.sort orders that array.  An empty
\* data returns before anything is built.
calculatePercentileArrays(data, absolute) ==
  IF Len(data) = 0 THEN [data |-> data, processedData |-> << >>]
  ELSE
    LET processedData == IF absolute
                           THEN [i \in 1..Len(data) |-> Abs(data[i])]
                           ELSE data
    IN [data |-> data, processedData |-> SortAsc(processedData)]

\* calculateMedian: sorted is [...values].sort(...), the order of a new array.
calculateMedianArrays(values) ==
  IF Len(values) = 0 THEN [values |-> values, sorted |-> << >>]
  ELSE [values |-> values, sorted |-> SortAsc(values)]

FloatMean(data, e) == SumSeq(data) \div Len(data) + e

calculateStdDev(data, e) ==
  IF Len(data) = 0 THEN [ss |-> 0, len |-> 1]
  ELSE
    LET mean == FloatMean(data, e)
    IN [ss |-> SumSeq([i \in 1..Len(data) |-> (data[i] - mean) * (data[i] - mean)]),
        len |-> Len(data)]

ZeroScore == [num |-> 0, ss |-> 1, len |-> 1]

calculateZScore(value, history, e) ==
  LET mean == FloatMean(history, e)
      std == calculateStdDev(history, e)
  IN IF std.ss = 0 THEN ZeroScore
     ELSE [num |-> value - mean, ss |-> std.ss, len |-> std.len]

\* z > 1, z < -1 for z = num / sqrt(ss / len), compared without the root.
GreaterThanOne(z) == z.num > 0 /\ z.num * z.num * z.len > z.ss

LessThanMinusOne(z) == z.num < 0 /\ z.num * z.num * z.len > z.ss

(***************************************************************************)
(* Metric processors.  assets is the list validAssets, map a record of     *)
(* series by symbol (a function whose domain is the set of its keys).      *)
(***************************************************************************)
NoMetric == [symbol |-> NULL]

\* filter(r => r !== null)
NotNull(results) == SelectSeq(results, LAMBDA m : m # NoMetric)

Symbols(metrics) == {metrics[i].symbol : i \in 1..Len(metrics)}

processFundingMetrics(assets, map, clock) ==
  LET one(asset) ==
        IF asset \notin DOMAIN map THEN NoMetric
        ELSE IF Len(map[asset].rates) = 0 THEN NoMetric
        ELSE
          LET rates == map[asset].rates
              recentRates ==
                SelectSeq(rates, LAMBDA r : (clock - r.fundingTime) <= NinetyDays)
              values == [i \in 1..Len(recentRates) |->
                           recentRates[i].fundingRate * 3 * 365]
              currentRate == values[Len(values)]
          IN IF Len(recentRates) = 0 THEN NoMetric
             ELSE [symbol |-> asset, currentRate |-> currentRate,
                   percentile |-> fundingPercentileOf(values)]
  IN NotNull([i \in 1..Len(assets) |-> one(assets[i])])

MinVolatilityCandles == 50
VolatilityWindow == 21
HistoryDays == 180

Min(a, b) == IF a < b THEN a ELSE b
Max(a, b) == IF a > b THEN a ELSE b

\* The entries of volHistory: one per i in 0..historyDays-1 until the window
\* returns.length - i - window would start before the first return (the
\* start index falls as i grows, so the loop breaks at the first such i).
VolHistoryLength(returnsLength) ==
  Cardinality({i \in 0..(HistoryDays - 1) : returnsLength - i - VolatilityWindow >= 0})

\* The exponentially weighted volatilities are not evaluated: the metric
\* carries the number of history points it was ranked in (the rank itself
\* is volatilityPercentileOf of these points).
processVolatilityMetrics(assets, map) ==
  LET one(asset) ==
        IF asset \notin DOMAIN map THEN NoMetric
        ELSE IF map[asset].n < MinVolatilityCandles THEN NoMetric
        ELSE
          LET returnsLength == map[asset].n - 1
          IN IF returnsLength < VolatilityWindow THEN NoMetric
             ELSE IF VolHistoryLength(returnsLength) = 0 THEN NoMetric
             ELSE [symbol |-> asset, points |-> VolHistoryLength(returnsLength)]
  IN NotNull([i \in 1..Len(assets) |-> one(assets[i])])

VolumeWindow == 90
WeekWindow == 7

\* Volumes are counted in units of 1 / (7 * 90), so sum / 7 and sum / 90 are
\* whole numbers before rounding.
VolUnit == VolumeWindow * WeekWindow

\* parseFloat(k.volume) of the candle j places before the latest one.
VolumeAt(s, j) == VolUnit * (IF s.from <= j /\ j <= s.to THEN s.hi ELSE s.lo)

ChangeStatus(zScore) ==
  IF GreaterThanOne(zScore) THEN "INCREASE"
  ELSE IF LessThanMinusOne(zScore) THEN "DECREASE"
  ELSE "NEUTRAL"

\* A volume processor without its minimum-history guard.
processVolumeMetricsNoMinimum(assets, map) ==
  NotNull([i \in 1..Len(assets) |->
             IF assets[i] \notin DOMAIN map THEN NoMetric
             ELSE [symbol |-> assets[i], zScore |-> ZeroScore,
                   changeStatus |-> "NEUTRAL",
                   last7DayAvg |-> 0, last90DayAvg |-> 0]])

processVolumeMetrics(assets, map) ==
  LET one(asset) ==
        IF asset \notin DOMAIN map THEN NoMetric
        ELSE IF map[asset].n < VolumeWindow THEN NoMetric
        ELSE
          LET s == map[asset]
              volumes == [i \in 1..VolumeWindow |-> VolumeAt(s, VolumeWindow - i)]
              last7 == SubSeq(volumes, VolumeWindow - WeekWindow + 1, VolumeWindow)
              avg7 == SumSeq(last7) \div WeekWindow + s.e7
              avg90 == SumSeq(volumes) \div VolumeWindow + s.e90
              zScore == calculateZScore(avg7, volumes, s.e90)
          IN [symbol |-> asset, zScore |-> zScore,
              changeStatus |-> ChangeStatus(zScore),
              last7DayAvg |-> avg7, last90DayAvg |-> avg90]
  IN NotNull([i \in 1..Len(assets) |-> one(assets[i])])

(***************************************************************************)
(* Closes and daily log-returns.  Closes are powers of two, so that        *)
(* Math.log(close[i] / close[i-1]) is a whole number of units ln 2; the    *)
(* returns are counted in units of ln 2 / RetUnit, which keeps the average *)
(* over any number of alt-coins whole.                                     *)
(***************************************************************************)
CloseAt(s, j) == IF j % 2 = 0 THEN s.c0 ELSE s.c1

RECURSIVE Log2(_)
Log2(c) == IF c <= 1 THEN 0 ELSE 1 + Log2(c \div 2)

RECURSIVE Factorial(_)
Factorial(k) == IF k <= 1 THEN 1 ELSE k * Factorial(k - 1)

RetUnit == Factorial(NumAssets)

\* The return of the candle at offset j over the candle before it (j + 1).
ReturnAt(s, j) == RetUnit * (Log2(CloseAt(s, j)) - Log2(CloseAt(s, j + 1)))

\* assetRet[date] !== undefined: the series has a candle at offset j with a
\* candle before it.
HasReturn(s, j) == j + 1 <= s.n - 1

(***************************************************************************)
(* calculateCorrelation.  The result is numerator / sqrt(dx * dy), kept    *)
(* as its three whole parts; the fallback 0 is ZeroCorr and the literal 1  *)
(* of the diagonal is OneCorr.                                             *)
(***************************************************************************)
ZeroCorr == [num |-> 0, dx |-> 1, dy |-> 1]
OneCorr == [num |-> 1, dx |-> 1, dy |-> 1]

\* A coefficient computed from the first series alone.
calculateCorrelationOfFirst(x, y) ==
  [num |-> Len(x) * SumSeq([i \in 1..Len(x) |-> x[i] * x[i]]), dx |-> 1, dy |-> 1]

\* No rounding: the three differences are the exact ones.
Exact == [num |-> 0, dx |-> 0, dy |-> 0]

\* e holds the rounding residues by which the three floating-point
\* differences n * sumXY - sumX * sumY, n * sumX2 - sumX * sumX and
\* n * sumY2 - sumY * sumY differ from the exact ones.  A result whose dx
\* and dy have opposite signs is NaN, the root of a negative product.
calculateCorrelationRounded(x, y, e) ==
  LET n == Len(x)
  IN IF n # Len(y) \/ n = 0 THEN ZeroCorr
     ELSE
       LET sumX == SumSeq(x)
           sumY == SumSeq(y)
           sumXY == SumSeq([i \in 1..n |-> x[i] * y[i]])
           sumX2 == SumSeq([i \in 1..n |-> x[i] * x[i]])
           sumY2 == SumSeq([i \in 1..n |-> y[i] * y[i]])
           numerator == n * sumXY - sumX * sumY + e.num
           dx == n * sumX2 - sumX * sumX + e.dx
           dy == n * sumY2 - sumY * sumY + e.dy
       IN IF dx = 0 \/ dy = 0 THEN ZeroCorr
          ELSE [num |-> numerator, dx |-> dx, dy |-> dy]

\* The coefficient of series whose sums and differences are exact.
calculateCorrelation(x, y) == calculateCorrelationRounded(x, y, Exact)

CorrelationDates == 30
DaysToGraph == 90
MinTargetIdx == 90
RollingWindows == <<10, 30, 60, 90>>

EmptyCorrelation ==
  [matrix |-> [assets |-> << >>, matrix |-> << >>], history |-> << >>]

\* A processor that ended with an exception instead of a value.
Thrown == [thrown |-> TRUE]

\* A correlation processor that lists the valid assets when the reference
\* asset is missing.
processCorrelationDataListing(assets, map) ==
  IF "BTC" \notin DOMAIN map
    THEN [matrix |-> [assets |-> assets, matrix |-> << >>], history |-> << >>]
    ELSE EmptyCorrelation

\* A correlation processor without its guard on the reference asset.
processCorrelationDataNoGuard(assets, map) ==
  IF "BTC" \notin DOMAIN map THEN Thrown ELSE EmptyCorrelation

\* An asset that passes for aligned whatever dates it has.
isValidAlways(klines, dates) == TRUE

\* isValid after the forEach over last30Dates: the asset has a return on
\* every one of the dates.
isValid(klines, dates) ==
  \A i \in 1..Len(dates) : HasReturn(klines, dates[i])

\* btcReturns.slice(-30).map(d => d.date), as offsets, oldest first.
last30DatesOf(btc) ==
  LET m == Min(CorrelationDates, btc.n - 1)
  IN [i \in 1..m |-> m - i]

\* alignedReturns after the forEach over assets: the valid assets, each with
\* its returns on the dates of last30Dates.
alignedReturnsOf(assets, map) ==
  LET last30Dates == last30DatesOf(map["BTC"])
      valid == {assets[k] : k \in {q \in 1..Len(assets) : isValid(map[assets[q]], last30Dates)}}
  IN [asset \in valid |->
        [i \in 1..Len(last30Dates) |-> ReturnAt(map[asset], last30Dates[i])]]

\* A loop over the days to graph that stops at the first date of the series.
GraphedDaysToStart(returnsLength) ==
  {i \in 0..(DaysToGraph - 1) : returnsLength - 1 - i >= 0}

\* The i of the loop that reach historyPoints.unshift: targetIdx falls as i
\* grows, so the loop breaks at the first i below the threshold.
GraphedDays(returnsLength) ==
  {i \in 0..(DaysToGraph - 1) : returnsLength - 1 - i >= MinTargetIdx}

\* Object.keys(alignedReturns): the aligned assets in the order of assets.
matrixAssetsOf(assets, alignedReturns) ==
  SelectSeq(assets, LAMBDA asset : asset \in DOMAIN alignedReturns)

\* matrixAssets.filter(a => a !== 'BTC')
altsOf(matrixAssets) == SelectSeq(matrixAssets, LAMBDA a : a # "BTC")

\* One entry of altSlice: sum / cnt over the alts that have a return on the
\* date at offset j, 0 when none has.
altReturnAt(alts, map, j) ==
  LET have == SelectSeq(alts, LAMBDA a : HasReturn(map[a], j))
  IN IF Len(have) > 0
       THEN SumSeq([q \in 1..Len(have) |-> ReturnAt(map[have[q]], j)])
              \div Len(have)
       ELSE 0

\* The offsets of the dates that enter a window of a graphed day: sliceDates
\* of the longest window of day i is i .. i + 89.
HistoryOffsets(returnsLength) ==
  {i + t : i \in GraphedDays(returnsLength), t \in 0..(RollingWindows[4] - 1)}

\* The average-altcoin return on each of these dates, as calcRolling
\* computes it.
altSliceOf(assets, map) ==
  LET alts == altsOf(matrixAssetsOf(assets, alignedReturnsOf(assets, map)))
  IN [j \in HistoryOffsets(map["BTC"].n - 1) |-> altReturnAt(alts, map, j)]

\* Dates are days relative to the latest close: offset j is the date -j.
processCorrelationData(assets, map) ==
  IF "BTC" \notin DOMAIN map THEN EmptyCorrelation
  ELSE
    LET btc == map["BTC"]
        returnsLength == btc.n - 1
        alignedReturns == alignedReturnsOf(assets, map)
        \* Object.keys: the valid assets in the order of assets
        matrixAssets == matrixAssetsOf(assets, alignedReturns)
        k == Len(matrixAssets)
        matrix ==
          [i \in 1..k |->
             [j \in 1..k |->
                IF i = j THEN OneCorr
                ELSE calculateCorrelation(alignedReturns[matrixAssets[i]],
                                          alignedReturns[matrixAssets[j]])]]
        alts == altsOf(matrixAssets)
        graphed == GraphedDays(returnsLength)
        avgAlt(j) == altReturnAt(alts, map, j)
        calcRolling(i, window) ==
          calculateCorrelation([t \in 1..window |-> ReturnAt(btc, i + window - t)],
                               [t \in 1..window |-> avgAlt(i + window - t)])
        point(i) ==
          [date |-> 0 - i,
           corr10 |-> calcRolling(i, RollingWindows[1]),
           corr30 |-> calcRolling(i, RollingWindows[2]),
           corr60 |-> calcRolling(i, RollingWindows[3]),
           corr90 |-> calcRolling(i, RollingWindows[4])]
        points == Cardinality(graphed)
    IN IF graphed # {} /\ "BTC" \notin Range(matrixAssets)
         THEN Thrown       \* allAssetReturns['BTC'] is undefined
         ELSE [matrix |-> [assets |-> matrixAssets, matrix |-> matrix],
               history |-> [q \in 1..points |-> point(points - q)]]

(***************************************************************************)
(* Factor scores.  A signal is [ok, val]: ok is FALSE for null.  Signals   *)
(* are counted in units of 1 / SigUnit, so that the median of two of them  *)
(* and the average over up to four periods are whole.                      *)
(***************************************************************************)
SigUnit == 2 * 12

NullSignal == [ok |-> FALSE, val |-> 0]

Signal(v) == [ok |-> TRUE, val |-> v]

MinFactorCandles == 30
UniverseSize == 25
TrendWarmup == 50

Periods == <<5, 10, 20>>
TrendPeriods == <<5, 10, 20, 40>>

\* Array.prototype.sort((a, b) => b.key - a.key) on entries [key, item]:
\* descending, stable.
RECURSIVE InsertDesc(_, _)
InsertDesc(x, s) ==
  IF s = << >> THEN <<x>>
  ELSE IF x.key > s[1].key THEN <<x>> \o s
  ELSE <<s[1]>> \o InsertDesc(x, Tail(s))

\* A sort that leaves the entries in the order they were pushed.
KeptOrder(s) == s

RECURSIVE SortDescKeyed(_)
SortDescKeyed(s) ==
  IF s = << >> THEN << >>
  ELSE InsertDesc(s[Len(s)], SortDescKeyed(SubSeq(s, 1, Len(s) - 1)))

\* The items of the sorted entries.
Items(sorted) == [i \in 1..Len(sorted) |-> sorted[i].item]

\* slice(0, k) and slice(-k)
SliceHead(s, k) == SubSeq(s, 1, Min(k, Len(s)))
SliceTail(s, k) == SubSeq(s, Max(1, Len(s) - k + 1), Len(s))

\* reduce over klines.slice(-30) of parseFloat(close) * parseFloat(volume)
DollarVolume(s) ==
  SumSeq([i \in 1..MinFactorCandles |->
            CloseAt(s, MinFactorCandles - i) * VolumeAt(s, MinFactorCandles - i)])

\* volumeMap after the sort
volumeMapSorted(assets, klinesMap) ==
  LET has == SelectSeq(assets, LAMBDA a :
               a \in DOMAIN klinesMap /\ klinesMap[a].n >= MinFactorCandles)
      volumeMap == [i \in 1..Len(has) |->
                      [symbol |-> has[i], vol |-> DollarVolume(klinesMap[has[i]])]]
  IN Items(SortDescKeyed([i \in 1..Len(volumeMap) |->
                            [key |-> volumeMap[i].vol, item |-> volumeMap[i]]]))

top25Of(volumeMap) ==
  LET head == SliceHead(volumeMap, UniverseSize)
  IN [i \in 1..Len(head) |-> head[i].symbol]

bottom25Of(volumeMap) ==
  LET tail == SliceTail(volumeMap, UniverseSize)
  IN [i \in 1..Len(tail) |-> tail[i].symbol]

\* A mean-reversion universe taken as the bottom 25 as they are.
cleanBottom25Unfiltered(volumeMap) == bottom25Of(volumeMap)

cleanBottom25Of(volumeMap) ==
  SelectSeq(bottom25Of(volumeMap), LAMBDA s : s \notin Range(top25Of(volumeMap)))

getReturnSignal(klinesMap, symbol, days) ==
  IF symbol \notin DOMAIN klinesMap THEN NullSignal
  ELSE IF klinesMap[symbol].n < days + 1 THEN NullSignal
  ELSE IF klinesMap[symbol].c0 = klinesMap[symbol].c1 THEN Signal(0)   \* std === 0
  ELSE Signal(SigUnit * klinesMap[symbol].rs)

MinCarryRates == 3

getCarrySignal(fundingMap, clock, symbol, days) ==
  IF symbol \notin DOMAIN fundingMap THEN NullSignal
  ELSE IF Len(fundingMap[symbol].rates) = 0 THEN NullSignal
  ELSE
    LET slice == SelectSeq(fundingMap[symbol].rates,
                           LAMBDA r : (clock - r.fundingTime) <= days)
    IN IF Len(slice) < MinCarryRates THEN NullSignal
       ELSE IF \A i \in 1..Len(slice) : slice[i].fundingRate = slice[1].fundingRate
         THEN Signal(0)                                                 \* std === 0
         ELSE Signal(SigUnit * fundingMap[symbol].cs)

\* ema(series, period) of the statistics library: seeded by the first value,
\* smoothing factor 2 / (period + 1), left to right, the final value.  In
\* fixed point: each step is rounded towards minus infinity.
RECURSIVE EmaTo(_, _, _)
EmaTo(series, period, k) ==
  IF k = 1 THEN series[1]
  ELSE (2 * series[k] + (period - 1) * EmaTo(series, period, k - 1)) \div (period + 1)

calculateEMA(series, period) ==
  IF Len(series) = 0 THEN 0 ELSE EmaTo(series, period, Len(series))

\* The raw signals getTrendScore hands to the EMA, oldest first.  index is
\* the array index of the cursor; its offset from the latest candle is
\* n - 1 - index.
trendSignalSeries(s, days) ==
  LET lookbackForEma == days * 2
      totalKlines == s.n
      cursor(i) == totalKlines - lookbackForEma + i
      kept == SelectSeq([q \in 1..lookbackForEma |-> q - 1],
                        LAMBDA i : cursor(i) - days + 1 >= 0)
      sig(i) ==
        LET prices == [q \in 1..days |->
                         CloseAt(s, totalKlines - 1 - (cursor(i) - days + q))]
            currentPrice == prices[days]
            max == CHOOSE x \in Range(prices) : \A y \in Range(prices) : y <= x
            min == CHOOSE x \in Range(prices) : \A y \in Range(prices) : y >= x
            range == max - min
        IN IF range > 0
             THEN (SigUnit * 2 * (2 * currentPrice - max - min)) \div range
             ELSE 0
  IN [q \in 1..Len(kept) |-> sig(kept[q])]

getTrendScore(klinesMap, symbol, days) ==
  IF symbol \notin DOMAIN klinesMap THEN NullSignal
  ELSE IF klinesMap[symbol].n < days + TrendWarmup THEN NullSignal
  ELSE
    LET smoothPeriod == Max(2, days \div 4)
        signalSeries == trendSignalSeries(klinesMap[symbol], days)
    IN IF Len(signalSeries) = 0 THEN Signal(0)
       ELSE Signal(calculateEMA(signalSeries, smoothPeriod))

\* The three scoreFn of the code are linear in the signal and the median:
\* sig - med, -(sig - med) and sig.
Minus == [sig |-> 1, med |-> -1]
Inverted == [sig |-> -1, med |-> 1]
Plain == [sig |-> 1, med |-> 0]

\* A periodSignals that keeps the null signals, as the value 0.
periodSignalsOfAll(universe, periods, signalFn) ==
  [p \in 1..Len(periods) |->
     [i \in 1..Len(universe) |->
        [val |-> signalFn[universe[i], periods[p]].val, sym |-> universe[i]]]]

\* periodSignals[p]: the non-null signals of the universe for periods[p].
\* signalFn is the signal function as a value, by symbol and number of days.
periodSignalsOf(universe, periods, signalFn) ==
  [p \in 1..Len(periods) |->
     LET all == [i \in 1..Len(universe) |->
                   [sym |-> universe[i], sig |-> signalFn[universe[i], periods[p]]]]
         valid == SelectSeq(all, LAMBDA x : x.sig.ok)
     IN [i \in 1..Len(valid) |-> [val |-> valid[i].sig.val, sym |-> valid[i].sym]]]

\* The rest of calculateFactorScores, once periodSignals is filled.
scoresOf(universe, periods, periodSignals, scoreFn) ==
  LET medians ==
        [p \in 1..Len(periods) |->
           calculateMedian([i \in 1..Len(periodSignals[p]) |->
                              periodSignals[p][i].val])]
      found(p, sym) ==
        {i \in 1..Len(periodSignals[p]) : periodSignals[p][i].sym = sym}
      item(p, sym) ==
        periodSignals[p][CHOOSE i \in found(p, sym) :
                           \A k \in found(p, sym) : i <= k]
      one(sym) ==
        LET have == SelectSeq([p \in 1..Len(periods) |-> p],
                              LAMBDA p : found(p, sym) # {})
            sumScores == SumSeq([q \in 1..Len(have) |->
                                   scoreFn.sig * item(have[q], sym).val
                                     + scoreFn.med * medians[have[q]]])
            validCount == Len(have)
        IN IF validCount > 0
             THEN [symbol |-> sym, score |-> sumScores \div validCount]
             ELSE NoMetric
      results == NotNull([i \in 1..Len(universe) |-> one(universe[i])])
  IN Items(SortDescKeyed([i \in 1..Len(results) |->
                            [key |-> results[i].score, item |-> results[i]]]))

calculateFactorScores(universe, periods, signalFn, scoreFn) ==
  CHOOSE r \in {scoresOf(universe, periods, ps, scoreFn) :
                  ps \in {periodSignalsOf(universe, periods, signalFn)}} : TRUE

processFactorMetrics(assets, klinesMap, fundingMap, clock) ==
  LET volumeMap == volumeMapSorted(assets, klinesMap)
      top25 == top25Of(volumeMap)
      cleanBottom25 == cleanBottom25Of(volumeMap)
      returnSignal == [sym \in Range(assets), d \in Range(Periods) |->
                         getReturnSignal(klinesMap, sym, d)]
      carrySignal == [sym \in Range(assets), d \in Range(Periods) |->
                        getCarrySignal(fundingMap, clock, sym, d)]
      trendScore == [sym \in Range(assets), d \in Range(TrendPeriods) |->
                       getTrendScore(klinesMap, sym, d)]
  IN [trendFollowing |-> calculateFactorScores(assets, TrendPeriods, trendScore, Plain),
      momentum |-> calculateFactorScores(top25, Periods, returnSignal, Minus),
      meanReversion |-> calculateFactorScores(cleanBottom25, Periods, returnSignal, Inverted),
      carry |-> calculateFactorScores(assets, Periods, carrySignal, Inverted)]

(***************************************************************************)
(* Breadth.  A value is the fraction num / den (0 is 0 / 1).               *)
(***************************************************************************)
BreadthMinCandles == 600
AnalysisHistory == 500
BreadthPeriods == <<20, 50, 100>>

EmptyBreadth == [aboveSma |-> << >>, rangePosition |-> << >>]

ZeroFraction == [num |-> 0, den |-> 1]

\* A breadth processor that analyses whatever candles the reference asset
\* has, without the minimum.
processBreadthMetricsNoMinimum(assets, klinesMap) ==
  IF "BTC" \notin DOMAIN klinesMap THEN EmptyBreadth
  ELSE
    LET points == Min(AnalysisHistory, klinesMap["BTC"].n)
        series == [i \in 1..points |->
                     [date |-> 0 - (points - i), val20 |-> ZeroFraction,
                      val50 |-> ZeroFraction, val100 |-> ZeroFraction]]
    IN [aboveSma |-> series, rangePosition |-> series]

\* A findIndex that returns the index of the asset's latest candle whatever
\* the day asked for.
findIndexOfLatest(klines, time) == klines.n - 1

\* history.findIndex(h => h.time === time) for the day at offset time: -1
\* when the asset has no candle on that day.
findIndexOfTime(klines, time) ==
  IF time <= klines.n - 1 THEN klines.n - 1 - time ELSE -1

\* The closes of history.slice(idx - p + 1, idx + 1), oldest first.
windowSlice(klines, time, p) == [q \in 1..p |-> CloseAt(klines, time + p - q)]

\* currentPrice > sma, with sma = sum / p.
aboveSmaOf(klines, time, p) ==
  CloseAt(klines, time) * p > SumSeq(windowSlice(klines, time, p))

windowMax(klines, time, p) ==
  CHOOSE x \in Range(windowSlice(klines, time, p)) :
    \A y \in Range(windowSlice(klines, time, p)) : y <= x

windowMin(klines, time, p) ==
  CHOOSE x \in Range(windowSlice(klines, time, p)) :
    \A y \in Range(windowSlice(klines, time, p)) : y >= x

\* rhl = Math.max(currentPrice - min, 0) / (max - min), in hundredths.
rhlOf(klines, time, p) ==
  (Max(CloseAt(klines, time) - windowMin(klines, time, p), 0) * 100)
    \div (windowMax(klines, time, p) - windowMin(klines, time, p))

processBreadthMetrics(assets, klinesMap) ==
  IF "BTC" \notin DOMAIN klinesMap THEN EmptyBreadth
  ELSE IF klinesMap["BTC"].n < BreadthMinCandles THEN EmptyBreadth
  ELSE
    LET \* btcKlines.slice(-500).map(k => k.closeTime), as offsets, oldest first
        timeline == [i \in 1..AnalysisHistory |-> AnalysisHistory - i]
        withData == SelectSeq(assets, LAMBDA a : a \in DOMAIN klinesMap)
        idx(a, time) == findIndexOfTime(klinesMap[a], time)
        above(a, time, p) == aboveSmaOf(klinesMap[a], time, p)
        hi(a, time, p) == windowMax(klinesMap[a], time, p)
        lo(a, time, p) == windowMin(klinesMap[a], time, p)
        \* the assets that reach the body of periods.forEach for p
        enough(time, p) ==
          SelectSeq(withData, LAMBDA a : idx(a, time) # -1 /\ idx(a, time) >= p)
        countsAboveSma(time, p) ==
          Len(SelectSeq(enough(time, p), LAMBDA a : above(a, time, p)))
        ranged(time, p) ==
          SelectSeq(enough(time, p), LAMBDA a : hi(a, time, p) > lo(a, time, p))
        rhl(a, time, p) == rhlOf(klinesMap[a], time, p)
        sumsRangePos(time, p) ==
          SumSeq([q \in 1..Len(ranged(time, p)) |-> rhl(ranged(time, p)[q], time, p)])
        countsValid(time, p) == Len(ranged(time, p))
        activeCount(time, p) ==
          Len(SelectSeq(withData, LAMBDA a : idx(a, time) >= p))
        getPct(val, time, p) ==
          IF activeCount(time, p) > 0
            THEN [num |-> val * 100, den |-> activeCount(time, p)]
            ELSE ZeroFraction
        \* sumsRangePos already carries the factor 100 of the 0-100 scale
        getAvg(val, time, p) ==
          IF countsValid(time, p) > 0
            THEN [num |-> val, den |-> countsValid(time, p)]
            ELSE ZeroFraction
    IN [aboveSma |->
          [i \in 1..AnalysisHistory |->
             [date |-> 0 - timeline[i],
              val20 |-> getPct(countsAboveSma(timeline[i], BreadthPeriods[1]),
                               timeline[i], BreadthPeriods[1]),
              val50 |-> getPct(countsAboveSma(timeline[i], BreadthPeriods[2]),
                               timeline[i], BreadthPeriods[2]),
              val100 |-> getPct(countsAboveSma(timeline[i], BreadthPeriods[3]),
                                timeline[i], BreadthPeriods[3])]],
        rangePosition |->
          [i \in 1..AnalysisHistory |->
             [date |-> 0 - timeline[i],
              val20 |-> getAvg(sumsRangePos(timeline[i], BreadthPeriods[1]),
                               timeline[i], BreadthPeriods[1]),
              val50 |-> getAvg(sumsRangePos(timeline[i], BreadthPeriods[2]),
                               timeline[i], BreadthPeriods[2]),
              val100 |-> getAvg(sumsRangePos(timeline[i], BreadthPeriods[3]),
                                timeline[i], BreadthPeriods[3])]]]

(***************************************************************************)
(* getDashboardData.                                                       *)
(***************************************************************************)
KlineInterval == "1d"
KlineLimit == 1000

\* A run that keeps the caches it finds.
KeptCache(cache) == cache

\* klineCache = {}; fundingCache = {}
ClearedCache(cache) == EmptyMap

IndexOf(asset) == CHOOSE i \in 1..Len(TARGET_ASSETS) : TARGET_ASSETS[i] = asset

\* A klinesMap built by position among the non-empty results instead of by
\* the asset's own index.
BuildKlinesMapShifted(klinesResults) ==
  LET full == SelectSeq(klinesResults, LAMBDA k : k.n > 0)
      has == SelectSeq(TARGET_ASSETS, LAMBDA a : klinesResults[IndexOf(a)].n > 0)
  IN [asset \in Range(has) |->
        full[Len(full) + 1 - (CHOOSE i \in 1..Len(has) : has[i] = asset)]]

\* TARGET_ASSETS.forEach((asset, i) => { if (klinesResults[i].length > 0) ... })
BuildKlinesMap(klinesResults) ==
  [asset \in {TARGET_ASSETS[i] : i \in {k \in 1..Len(TARGET_ASSETS) :
                                          klinesResults[k].n > 0}}
     |-> klinesResults[IndexOf(asset)]]

BuildFundingMap(fundingResults) ==
  [asset \in {TARGET_ASSETS[i] : i \in {k \in 1..Len(TARGET_ASSETS) :
                                          Len(fundingResults[k].rates) > 0}}
     |-> fundingResults[IndexOf(asset)]]

\* Object.keys(klinesMap): the keys in the order they were inserted.
KeysOf(map) == SelectSeq(TARGET_ASSETS, LAMBDA a : a \in DOMAIN map)

\* Step 3 of getDashboardData: the six processors and the returned aggregate,
\* or Thrown when a processor throws.
ProcessMetrics(klinesMap, fundingMap, clock) ==
  LET validAssets == KeysOf(klinesMap)
      correlationData == processCorrelationData(validAssets, klinesMap)
  IN IF correlationData = Thrown THEN Thrown
     ELSE [funding |-> processFundingMetrics(validAssets, fundingMap, clock),
           volatility |-> processVolatilityMetrics(validAssets, klinesMap),
           volume |-> processVolumeMetrics(validAssets, klinesMap),
           correlation |-> correlationData,
           factors |-> processFactorMetrics(validAssets, klinesMap, fundingMap, clock),
           breadth |-> processBreadthMetrics(validAssets, klinesMap)]

(***************************************************************************)
(* An invocation of getDashboardData: pc is "idle" before the call,        *)
(* "klines" and "funding" while it awaits the two Promise.all, "resolved"  *)
(* or "rejected" once its promise has settled, "settled" once the caller   *)
(* has taken the outcome.  kf and ff are its calls of fetchKlines and      *)
(* fetchFundingRates, by asset.                                            *)
(***************************************************************************)
NoResult == [none |-> TRUE]

IdleRun ==
  [pc |-> "idle",
   kf |-> [a \in AssetSet |-> NoFetch(EmptyKlines)],
   ff |-> [a \in AssetSet |-> NoFetch(EmptyFunding)],
   klinesMap |-> EmptyMap, fundingMap |-> EmptyMap, result |-> NoResult]

SettledRun == [IdleRun EXCEPT !.pc = "settled"]

\* A promise whose value Promise.all has delivered: only the value is left.
Consumed(f) ==
  [f EXCEPT !.st = "consumed", !.reqs = 0, !.direct = "none", !.relay = "none"]

Init ==
  /\ klineCache = EmptyMap
  /\ fundingCache = EmptyMap
  /\ runs = [r \in 1..MaxRuns |-> IdleRun]
  /\ started = 0
  /\ loading = TRUE
  /\ error = FALSE
  /\ now = NinetyDays + 10
  /\ pin = NoResult
  /\ px = NoResult

\* The synchronous prefix of getDashboardData: both caches are replaced by
\* empty ones and fetchKlines is called for every asset.
getDashboardData(r) ==
  /\ runs[r].pc = "idle"
  /\ klineCache' = ClearedCache(klineCache)
  /\ fundingCache' = ClearedCache(fundingCache)
  /\ runs' = [runs EXCEPT ![r] =
       [IdleRun EXCEPT
          !.pc = "klines",
          !.kf = [a \in AssetSet |->
                    fetchKlinesCall(klineCache', a, KlineInterval, KlineLimit)]]]

\* App.fetchData up to its await: setLoading(true), setError(null), the call.
fetchData ==
  /\ started < MaxRuns
  /\ started' = started + 1
  /\ loading' = TRUE
  /\ error' = FALSE
  /\ getDashboardData(started + 1)
  /\ UNCHANGED <<now, pin, px>>

\* useEffect(() => { fetchData() }, []): once, after the first render.
Mount ==
  /\ started = 0
  /\ fetchData

\* A refresh button that is never disabled.
RefreshNeverDisabled == FALSE

\* disabled={loading} of the refresh button.
RefreshDisabled == loading

\* onClick of the refresh button, which is disabled while loading.
RefreshClick ==
  /\ started > 0
  /\ ~RefreshDisabled
  /\ fetchData

\* The response of the direct request of fetchKlines(a) of run r arrives.
KlineDirectResponse(r, a) ==
  /\ runs[r].kf[a].st = "direct"
  /\ \E resp \in Responses(KlineBodies(a, r)) :
       LET j == fetchJsonDirect(resp)
           s == fetchKlinesSettle(j)
       IN IF j.tag = "proxy"
            THEN /\ runs' = [runs EXCEPT ![r].kf[a] = IssueProxy(@, resp)]
                 /\ UNCHANGED klineCache
            ELSE /\ runs' = [runs EXCEPT ![r].kf[a] =
                                 Settled([@ EXCEPT !.direct = Outcome(resp)], "none", s)]
                 /\ klineCache' =
                      IF s.write
                        THEN Put(klineCache, KlineKey(a, KlineInterval, KlineLimit), s.val)
                        ELSE klineCache
  /\ UNCHANGED <<fundingCache, started, loading, error, now, pin, px>>

\* The response of the relay request of fetchKlines(a) of run r arrives.
KlineRelayResponse(r, a) ==
  /\ runs[r].kf[a].st = "relay"
  /\ \E resp \in Responses(KlineBodies(a, r)) :
       LET s == fetchKlinesSettle(fetchJsonProxy(resp))
       IN /\ runs' = [runs EXCEPT ![r].kf[a] = Settled(@, Ended(Outcome(resp)), s)]
          /\ klineCache' =
               IF s.write
                 THEN Put(klineCache, KlineKey(a, KlineInterval, KlineLimit), s.val)
                 ELSE klineCache
  /\ UNCHANGED <<fundingCache, started, loading, error, now, pin, px>>

FundingDirectResponse(r, a) ==
  /\ runs[r].ff[a].st = "direct"
  /\ \E resp \in Responses(FundingBodies(a, r)) :
       LET j == fetchJsonDirect(resp)
           s == fetchFundingRatesSettle(j)
       IN IF j.tag = "proxy"
            THEN /\ runs' = [runs EXCEPT ![r].ff[a] = IssueProxy(@, resp)]
                 /\ UNCHANGED fundingCache
            ELSE /\ runs' = [runs EXCEPT ![r].ff[a] =
                                 Settled([@ EXCEPT !.direct = Outcome(resp)], "none", s)]
                 /\ fundingCache' =
                      IF s.write THEN Put(fundingCache, a, s.val) ELSE fundingCache
  /\ UNCHANGED <<klineCache, started, loading, error, now, pin, px>>

FundingRelayResponse(r, a) ==
  /\ runs[r].ff[a].st = "relay"
  /\ \E resp \in Responses(FundingBodies(a, r)) :
       LET s == fetchFundingRatesSettle(fetchJsonProxy(resp))
       IN /\ runs' = [runs EXCEPT ![r].ff[a] = Settled(@, Ended(Outcome(resp)), s)]
          /\ fundingCache' =
               IF s.write THEN Put(fundingCache, a, s.val) ELSE fundingCache
  /\ UNCHANGED <<klineCache, started, loading, error, now, pin, px>>

\* A Promise.all that delivers only once every call has returned rows.
AllReturnedRows(fs) == \A a \in AssetSet : fs[a].st = "resolved" /\ fs[a].val.sym = a

\* Promise.all(promises): rejected as soon as one is, resolved once all are.
AllSettled(fs) ==
  \/ \E a \in AssetSet : fs[a].st = "rejected"
  \/ \A a \in AssetSet : fs[a].st = "resolved"

AnyRejected(fs) == \E a \in AssetSet : fs[a].st = "rejected"

\* The continuation of await Promise.all(klinePromises): klinesMap is built
\* and fetchFundingRates is called for every asset.
KlinesBatchDone(r) ==
  /\ runs[r].pc = "klines"
  /\ AllSettled(runs[r].kf)
  /\ runs' = [runs EXCEPT ![r] =
       IF AnyRejected(runs[r].kf)
         THEN [@ EXCEPT !.pc = "rejected"]
         ELSE [@ EXCEPT
                 !.pc = "funding",
                 !.kf = [a \in AssetSet |-> Consumed(runs[r].kf[a])],
                 !.klinesMap =
                   BuildKlinesMap([i \in 1..Len(TARGET_ASSETS) |->
                                     runs[r].kf[TARGET_ASSETS[i]].val]),
                 !.ff = [a \in AssetSet |-> fetchFundingRatesCall(fundingCache, a)]]]
  /\ UNCHANGED <<klineCache, fundingCache, started, loading, error, now, pin, px>>

\* The end of getDashboardData: its promise resolves with the aggregate out,
\* or is rejected when a processor threw.
ReturnOrThrow(run, fundingMap, out) ==
  [run EXCEPT
     !.pc = IF out = Thrown THEN "rejected" ELSE "resolved",
     !.ff = [a \in AssetSet |-> Consumed(run.ff[a])],
     !.fundingMap = fundingMap,
     !.result = IF out = Thrown THEN NoResult ELSE out]

\* The continuation of await Promise.all(fundingPromises): fundingMap is
\* built, the processors run, the aggregate is returned.
FundingBatchDone(r) ==
  /\ runs[r].pc = "funding"
  /\ AllSettled(runs[r].ff)
  /\ runs' = [runs EXCEPT ![r] =
       IF AnyRejected(runs[r].ff)
         THEN [@ EXCEPT !.pc = "rejected"]
         ELSE
           LET fundingMap ==
                 BuildFundingMap([i \in 1..Len(TARGET_ASSETS) |->
                                    runs[r].ff[TARGET_ASSETS[i]].val])
           IN CHOOSE done \in
                {ReturnOrThrow(runs[r], fundingMap, out) :
                   out \in {ProcessMetrics(runs[r].klinesMap, fundingMap, now)}} : TRUE]
  /\ UNCHANGED <<klineCache, fundingCache, started, loading, error, now, pin, px>>

\* App.fetchData after its await: the data is taken (try), or the error
\* message is set (catch), and loading is reset (finally).
fetchDataSettle ==
  /\ started > 0
  /\ runs[started].pc \in {"resolved", "rejected"}
  /\ error' = (runs[started].pc = "rejected")
  /\ loading' = FALSE
  /\ runs' = [runs EXCEPT ![started] = SettledRun]
  /\ UNCHANGED <<klineCache, fundingCache, started, now, pin, px>>

Next ==
  \/ Mount
  \/ RefreshClick
  \/ \E r \in 1..MaxRuns, a \in AssetSet : KlineDirectResponse(r, a)
  \/ \E r \in 1..MaxRuns, a \in AssetSet : KlineRelayResponse(r, a)
  \/ \E r \in 1..MaxRuns : KlinesBatchDone(r)
  \/ \E r \in 1..MaxRuns, a \in AssetSet : FundingDirectResponse(r, a)
  \/ \E r \in 1..MaxRuns, a \in AssetSet : FundingRelayResponse(r, a)
  \/ \E r \in 1..MaxRuns : FundingBatchDone(r)
  \/ fetchDataSettle

Spec == Init /\ [][Next]_vars


(***************************************************************************)
(* The calls of fetchKlines and fetchFundingRates of all runs.             *)
(***************************************************************************)
Fetches ==
  {runs[r].kf[a] : r \in 1..MaxRuns, a \in AssetSet}
    \cup {runs[r].ff[a] : r \in 1..MaxRuns, a \in AssetSet}

\* What makes the first try block of fetchJson throw.
DirectFailures == {"neterr", "notok", "badjson"}

\* The request discipline of one call, for the given reasons to go to the relay.
RequestDiscipline(f, reasons) ==
  /\ f.reqs <= 2
  /\ f.st = "direct" => f.reqs = 1 /\ f.direct = "pending" /\ f.relay = "none"
  /\ f.st = "relay" => f.reqs = 2 /\ f.direct \in reasons /\ f.relay = "pending"
  /\ f.st \in {"resolved", "rejected"} /\ ~f.hit =>
       \/ f.direct = "ok" /\ f.reqs = 1 /\ f.relay = "none"
       \/ f.direct = "failed" /\ f.reqs = 2 /\ f.relay \in {"ok", "failed"}

\* C1, as stated: the relay request is issued only after the direct request
\* failed by a network error or a non-success status, at most once, and
\* nothing is requested after it (one request when the direct one succeeds,
\* two otherwise).
C1_AsStated ==
  \A f \in Fetches : RequestDiscipline(f, {"neterr", "notok"})

\* C1, amended: the relay request is issued only after the direct attempt
\* threw (network error, non-success status, or a success status whose body
\* does not parse), at most once, and nothing is requested after it: one
\* request when the direct attempt returned a parsed body, two otherwise.
C1_RelayOnlyAfterDirectFailure ==
  \A f \in Fetches : RequestDiscipline(f, DirectFailures)

\* A call that went to the relay because the body of a successful direct
\* response did not parse, and a call settled after its second request.
C1_Witness ==
  /\ \E f \in Fetches : f.st = "relay" /\ f.direct = "badjson"
  /\ \E f \in Fetches : f.st = "resolved" /\ f.reqs = 2 /\ f.relay = "ok"

\* C2: when both the direct and the relay request fail, fetchKlines and
\* fetchFundingRates resolve to the empty list; no call ever rejects, and no
\* run is rejected.
C2_FetchNeverRejects ==
  /\ \A f \in Fetches : f.st # "rejected"
  /\ \A r \in 1..MaxRuns, a \in AssetSet :
       /\ runs[r].kf[a].st = "resolved" /\ runs[r].kf[a].relay = "failed"
            => runs[r].kf[a].val = EmptyKlines
       /\ runs[r].ff[a].st = "resolved" /\ runs[r].ff[a].relay = "failed"
            => runs[r].ff[a].val = EmptyFunding
  /\ \A r \in 1..MaxRuns : runs[r].pc # "rejected"

\* A run that went on with no candles at all and in which a funding fetch
\* has lost both its requests and resolved to the empty list.
C2_Witness ==
  \E r \in 1..MaxRuns, a \in AssetSet :
    /\ runs[r].pc = "funding"
    /\ runs[r].klinesMap = EmptyMap
    /\ runs[r].ff[a].st = "resolved"
    /\ runs[r].ff[a].relay = "failed"
    /\ runs[r].ff[a].val = EmptyFunding

\* The observations of a funding history that lie within the last 90 days.
RecentRates(f) ==
  SelectSeq(f.rates, LAMBDA x : (now - x.fundingTime) <= NinetyDays)

\* The runs whose first, respectively second, Promise.all has delivered.
PastKlines == {r \in 1..MaxRuns : runs[r].pc \in {"funding", "resolved", "rejected"}}
PastFunding == {r \in 1..MaxRuns : runs[r].pc = "resolved"}

\* C3: whatever subset of the fetches fails and in whatever order they
\* complete, the klines and funding maps built after a batch contain exactly
\* the assets whose own fetch gave a non-empty result, each mapped to the
\* series its own fetch of this run returned.
C3_MapsHoldOwnResults ==
  /\ \A r \in PastKlines :
       /\ DOMAIN runs[r].klinesMap = {a \in AssetSet : runs[r].kf[a].val.n > 0}
       /\ \A a \in DOMAIN runs[r].klinesMap :
            /\ runs[r].klinesMap[a] = runs[r].kf[a].val
            /\ runs[r].klinesMap[a].sym = a
  /\ \A r \in PastFunding :
       /\ DOMAIN runs[r].fundingMap =
            {a \in AssetSet : Len(runs[r].ff[a].val.rates) > 0}
       /\ \A a \in DOMAIN runs[r].fundingMap :
            /\ runs[r].fundingMap[a] = runs[r].ff[a].val
            /\ runs[r].fundingMap[a].sym = a

\* A resolved run in which one asset's candle fetch gave nothing while the
\* other assets are in the klines map, and likewise for funding.
C3_Witness ==
  \E r \in PastFunding, a, b \in AssetSet :
    /\ a \notin DOMAIN runs[r].klinesMap
    /\ DOMAIN runs[r].klinesMap = AssetSet \ {a}
    /\ b \notin DOMAIN runs[r].fundingMap
    /\ DOMAIN runs[r].fundingMap = AssetSet \ {b}

\* C4: every run empties both caches before it issues a fetch: in a sequence
\* of non-overlapping runs no call is answered by a cache, every call of a
\* run issues a transport request, and every series a run holds was fetched
\* by that run.
C4_RunsRefetchEverything ==
  /\ \A f \in Fetches : ~f.hit
  /\ \A r \in 1..MaxRuns, a \in AssetSet :
       /\ runs[r].kf[a].st \in {"direct", "relay", "resolved"} => runs[r].kf[a].reqs >= 1
       /\ runs[r].ff[a].st \in {"direct", "relay", "resolved"} => runs[r].ff[a].reqs >= 1
       /\ runs[r].kf[a].val.run \in {0, r}
       /\ runs[r].ff[a].val.run \in {0, r}
  /\ \A r \in 1..MaxRuns :
       /\ \A a \in DOMAIN runs[r].klinesMap : runs[r].klinesMap[a].run = r
       /\ \A a \in DOMAIN runs[r].fundingMap : runs[r].fundingMap[a].run = r
  /\ \A k \in DOMAIN klineCache : started > 0 /\ klineCache[k].run = started
  /\ \A k \in DOMAIN fundingCache : started > 0 /\ fundingCache[k].run = started

\* The second run has resolved with candles and funding of every asset.
C4_Witness ==
  /\ started = 2
  /\ runs[2].pc = "resolved"
  /\ DOMAIN runs[2].klinesMap = AssetSet
  /\ DOMAIN runs[2].fundingMap = AssetSet

AggregateKeys ==
  {"funding", "volatility", "volume", "correlation", "factors", "breadth"}

\* C5: getDashboardData never rejects: whatever the outcomes of the fetches,
\* the run resolves to one aggregate with funding, volatility, volume,
\* correlation, factors and breadth, and the caller never shows the error.
C5_RunNeverRejects ==
  /\ \A r \in 1..MaxRuns :
       /\ runs[r].pc # "rejected"
       /\ runs[r].pc = "resolved" => DOMAIN runs[r].result = AggregateKeys
  /\ ~error

\* A run in which every fetch failed has resolved, with empty lists.
C5_Witness ==
  \E r \in 1..MaxRuns :
    /\ runs[r].pc = "resolved"
    /\ runs[r].klinesMap = EmptyMap
    /\ runs[r].fundingMap = EmptyMap
    /\ \A a \in AssetSet : runs[r].ff[a].val = EmptyFunding
    /\ runs[r].result.funding = << >>
    /\ runs[r].result.volume = << >>

\* C8, as stated: the funding metrics of a run contain one entry for every
\* universe asset whose fetched funding history has an observation within
\* the last 90 days and for no other asset, whether or not the asset's
\* candle fetch succeeded.
C8_FundingMembership ==
  \A r \in PastFunding :
    /\ Symbols(runs[r].result.funding) =
         {a \in AssetSet : Len(RecentRates(runs[r].ff[a].val)) > 0}
    /\ Len(runs[r].result.funding) = Cardinality(Symbols(runs[r].result.funding))

(***************************************************************************)
(* The processors on their own: step 3 of getDashboardData applied to a    *)
(* klinesMap and a fundingMap drawn from the maps step 1 and step 2 can    *)
(* build (every entry non-empty, under its own symbol).                    *)
(***************************************************************************)
\* Alternating closes 2, 1, 2, ... with risk-normalised return 1.
WavyProfile == [FlatProfile EXCEPT !.c0 = 2, !.c1 = 1, !.rs = 1]

\* Candle series around the thresholds of the processors.
ProcSeries(a) ==
  {Series(a, 1, n, FlatProfile) : n \in {49, 50, 89, 90}}
    \cup {Series(a, 1, 90, WavyProfile)}

ProcFunding(a) ==
  {[sym |-> a, run |-> 1, rates |-> x, cs |-> 0] : x \in FundingRows \ {<< >>}}

\* The maps that hold, for each asset of a subset, one of its series.
ProcKlinesMaps ==
  UNION {{m \in [D -> UNION {ProcSeries(a) : a \in D}] :
            \A a \in D : m[a] \in ProcSeries(a)} : D \in SUBSET AssetSet}

ProcFundingMaps ==
  UNION {{m \in [D -> UNION {ProcFunding(a) : a \in D}] :
            \A a \in D : m[a] \in ProcFunding(a)} : D \in SUBSET AssetSet}

ProcInputs ==
  {[klinesMap |-> k, fundingMap |-> f] :
     k \in ProcKlinesMaps, f \in ProcFundingMaps}

Quiet ==
  /\ klineCache = EmptyMap
  /\ fundingCache = EmptyMap
  /\ runs = [r \in 1..MaxRuns |-> IdleRun]
  /\ started = 0
  /\ loading = TRUE
  /\ error = FALSE
  /\ now = NinetyDays + 10

InitProc ==
  /\ Quiet
  /\ pin \in ProcInputs
  /\ px = NoResult

\* Step 3 of getDashboardData on the maps of pin.
Process ==
  /\ px = NoResult
  /\ px' = ProcessMetrics(pin.klinesMap, pin.fundingMap, now)
  /\ UNCHANGED <<klineCache, fundingCache, runs, started, loading, error, now, pin>>

NextProc == Process

SpecProc == InitProc /\ [][NextProc]_vars

\* The entries of a metric list for the assets other than the reference one.
Others(metrics) == SelectSeq(metrics, LAMBDA m : m.symbol # "BTC")

\* What the processors return for the maps of pin with the candles b of the
\* reference asset added.
WithReference(b) ==
  ProcessMetrics(Put(pin.klinesMap, "BTC", b), pin.fundingMap, now)

\* The outputs that do not depend on the reference asset being there.
SameWithReference(b) ==
  \A w \in {WithReference(b)} :
    /\ Others(w.funding) = px.funding
    /\ Others(w.volatility) = px.volatility
    /\ Others(w.volume) = px.volume
    /\ Others(w.factors.trendFollowing) = px.factors.trendFollowing
    /\ Symbols(Others(w.factors.carry)) = Symbols(px.factors.carry)

SameFactorsWithReference(b) ==
  \A w \in {WithReference(b)} :
    /\ Others(w.factors.momentum) = px.factors.momentum
    /\ Others(w.factors.meanReversion) = px.factors.meanReversion
    /\ Others(w.factors.carry) = px.factors.carry

NoReference == px # NoResult /\ "BTC" \notin DOMAIN pin.klinesMap

\* C6, as stated: without candles of the reference asset the correlation
\* output is the empty matrix with empty history and the breadth output is
\* two empty series, while the funding, volatility, volume and factor
\* outputs of the other assets are what they would be with the reference
\* asset present.
C6_AsStated ==
  NoReference =>
    /\ px.correlation = EmptyCorrelation
    /\ px.breadth = EmptyBreadth
    /\ \A b \in ProcSeries("BTC") :
         SameWithReference(b) /\ SameFactorsWithReference(b)

\* C6, amended: without candles of the reference asset the correlation and
\* breadth outputs are empty and the other processors still return; the
\* funding, volatility, volume and trend-following entries of the other
\* assets are what they would be with the reference asset present, and the
\* same assets have a carry score (the momentum, mean-reversion and carry
\* scores themselves are taken against medians over the valid assets and
\* may differ).
C6_DegradesWithoutReference ==
  NoReference =>
    /\ DOMAIN px = AggregateKeys
    /\ px.correlation = EmptyCorrelation
    /\ px.breadth = EmptyBreadth
    /\ \A b \in ProcSeries("BTC") : SameWithReference(b)

\* The reference asset has no candles, another asset has ninety and recent
\* funding, and the processors have returned its metrics.
C6_Witness ==
  /\ NoReference
  /\ \E a \in AssetSet \ {"BTC"} :
       /\ a \in DOMAIN pin.klinesMap
       /\ pin.klinesMap[a].n = 90
       /\ a \in Symbols(px.funding)
       /\ a \in Symbols(px.volume)
       /\ a \in Symbols(px.factors.momentum)

\* C7: the volume metrics contain exactly the valid assets with at least 90
\* candles and the volatility metrics those with at least 50: an asset with
\* exactly 89 candles is absent from the volume metrics and present in the
\* volatility metrics, and in the funding metrics when it has a funding
\* observation of the last 90 days.
C7_ThresholdPerProcessor ==
  px # NoResult =>
    /\ Symbols(px.volume) = {a \in DOMAIN pin.klinesMap : pin.klinesMap[a].n >= 90}
    /\ Symbols(px.volatility) = {a \in DOMAIN pin.klinesMap : pin.klinesMap[a].n >= 50}
    /\ \A a \in DOMAIN pin.klinesMap :
         pin.klinesMap[a].n = 89 =>
           /\ a \notin Symbols(px.volume)
           /\ a \in Symbols(px.volatility)
           /\ (a \in DOMAIN pin.fundingMap /\ Len(RecentRates(pin.fundingMap[a])) > 0
                 => a \in Symbols(px.funding))

\* An asset with 89 candles and recent funding: in the volatility and funding
\* metrics, not in the volume metrics.
C7_Witness ==
  /\ px # NoResult
  /\ \E a \in DOMAIN pin.klinesMap :
       /\ pin.klinesMap[a].n = 89
       /\ a \notin Symbols(px.volume)
       /\ a \in Symbols(px.volatility)
       /\ a \in Symbols(px.funding)

(***************************************************************************)
(* processVolumeMetrics on its own, on one asset whose candles are drawn   *)
(* from series with identical volumes and with two-level volumes.          *)
(***************************************************************************)
\* Rounding residues (e7, e90) of sum / 7 and sum / 90 over 90 copies of one
\* volume, as IEEE-754 double arithmetic produces them: none (volume 100),
\* and those of the volumes 1234.567, 45678.9, 0.1 and 123456.789.
IdenticalResidues ==
  {<<0, 0>>, <<1, -5>>, <<1, -9>>, <<-1, -13>>, <<0, 9>>}

VolumeLengths == {90, 91, 120}

\* Ninety identical volumes v.
IdenticalVolumes ==
  {[FlatProfile EXCEPT !.lo = v, !.hi = v, !.e7 = e[1], !.e90 = e[2]] :
     v \in 1..3, e \in IdenticalResidues}

\* Volumes hi on the offsets from..to and lo elsewhere, whose two means are
\* exact.
TwoLevelVolumes ==
  {[FlatProfile EXCEPT !.lo = l, !.hi = l + d, !.from = w[1], !.to = w[2]] :
     l \in 1..2, d \in 1..2,
     w \in {<<0, 6>>, <<0, 44>>, <<45, 89>>, <<7, 89>>, <<3, 47>>, <<0, 0>>}}

VolumeInputs ==
  {Series("BTC", 1, n, p) :
     n \in VolumeLengths, p \in IdenticalVolumes \cup TwoLevelVolumes}

InitVolume ==
  /\ Quiet
  /\ pin \in VolumeInputs
  /\ px = NoResult

VolumeMetric ==
  /\ px = NoResult
  /\ px' = [volume |-> processVolumeMetrics(<<pin.sym>>, [a \in {pin.sym} |-> pin])]
  /\ UNCHANGED <<klineCache, fundingCache, runs, started, loading, error, now, pin>>

NextVolume == VolumeMetric

SpecVolume == InitVolume /\ [][NextVolume]_vars

\* Whether a z-score num / sqrt(ss / len) is zero.
IsZero(z) == z.num = 0

\* C9, the part that holds: every volume metric carries one of the three
\* labels, decided by the z-score the metric carries: INCREASE iff z > 1,
\* DECREASE iff z < -1, NEUTRAL otherwise.
C9_LabelFollowsComputedZ ==
  px # NoResult =>
    /\ Len(px.volume) = 1
    /\ px.volume[1].changeStatus \in {"INCREASE", "DECREASE", "NEUTRAL"}
    /\ px.volume[1].changeStatus = "INCREASE" <=> GreaterThanOne(px.volume[1].zScore)
    /\ px.volume[1].changeStatus = "DECREASE" <=> LessThanMinusOne(px.volume[1].zScore)

\* C9, as stated: the label is decided by the z-score alone (INCREASE iff
\* z > 1, DECREASE iff z < -1, NEUTRAL otherwise, so z = 1 and z = -1 are
\* NEUTRAL), and a series of ninety identical volumes is NEUTRAL with z = 0.
C9_LabelByZScore ==
  /\ C9_LabelFollowsComputedZ
  /\ px # NoResult /\ pin.lo = pin.hi =>
       px.volume[1].changeStatus = "NEUTRAL" /\ IsZero(px.volume[1].zScore)

\* A z-score of exactly 1 is labelled NEUTRAL.
C9_BoundaryReached ==
  /\ px # NoResult
  /\ px.volume[1].zScore.num > 0
  /\ px.volume[1].zScore.num * px.volume[1].zScore.num * px.volume[1].zScore.len = px.volume[1].zScore.ss
  /\ px.volume[1].changeStatus = "NEUTRAL"

(***************************************************************************)
(* processFactorMetrics on its own, on the first k assets of the universe  *)
(* of types.ts, for every k, with thirty-day dollar volumes that rise,     *)
(* fall, tie or repeat along the list, and with or without assets too      *)
(* short to enter the volume ranking.                                      *)
(***************************************************************************)
VolumePatterns == {"rising", "falling", "tied", "repeating"}

PatternVolume(pattern, i) ==
  CASE pattern = "rising" -> i
    [] pattern = "falling" -> Len(AllAssets) + 1 - i
    [] pattern = "tied" -> 1
    [] pattern = "repeating" -> 1 + (i % 3)

\* The series of the i-th asset: every fourth one has 29 candles when short
\* series are asked for.
FactorSeries(pattern, short, i) ==
  Series(AllAssets[i], 1,
         IF short /\ i % 4 = 0 THEN MinFactorCandles - 1 ELSE MinFactorCandles,
         [FlatProfile EXCEPT !.c0 = 2, !.c1 = 1, !.rs = i % 5,
                             !.lo = PatternVolume(pattern, i),
                             !.hi = PatternVolume(pattern, i)])

FactorInputs ==
  {[assets |-> SubSeq(AllAssets, 1, k),
    klinesMap |-> [a \in Range(SubSeq(AllAssets, 1, k)) |->
                     FactorSeries(pattern, short,
                                  CHOOSE i \in 1..k : AllAssets[i] = a)],
    fundingMap |-> EmptyMap] :
     k \in 0..Len(AllAssets), pattern \in VolumePatterns, short \in BOOLEAN}

InitFactors ==
  /\ Quiet
  /\ pin \in FactorInputs
  /\ px = NoResult

FactorMetrics ==
  /\ px = NoResult
  /\ px' = processFactorMetrics(pin.assets, pin.klinesMap, pin.fundingMap, now)
  /\ UNCHANGED <<klineCache, fundingCache, runs, started, loading, error, now, pin>>

NextFactors == FactorMetrics

SpecFactors == InitFactors /\ [][NextFactors]_vars

\* The two universes processFactorMetrics ranks the assets of pin into.
MomentumUniverse == Range(top25Of(volumeMapSorted(pin.assets, pin.klinesMap)))

MeanReversionUniverse ==
  Range(cleanBottom25Of(volumeMapSorted(pin.assets, pin.klinesMap)))

\* C10: for every universe size the momentum universe (top 25 by 30-day
\* dollar volume) and the mean-reversion universe (bottom 25 after removal)
\* share no symbol, and no symbol is in both the momentum and the
\* mean-reversion score list.
C10_UniversesDisjoint ==
  px # NoResult =>
    /\ MomentumUniverse \cap MeanReversionUniverse = {}
    /\ Symbols(px.momentum) \cap Symbols(px.meanReversion) = {}
    /\ Symbols(px.momentum) = MomentumUniverse
    /\ Symbols(px.meanReversion) = MeanReversionUniverse

\* Thirty ranked assets: the bottom 25 overlap the top 25 in twenty symbols,
\* and the five left are scored for mean reversion.
C10_Witness ==
  /\ px # NoResult
  /\ Len(volumeMapSorted(pin.assets, pin.klinesMap)) = 30
  /\ Len(px.momentum) = 25
  /\ Len(px.meanReversion) = 5
  /\ Range(bottom25Of(volumeMapSorted(pin.assets, pin.klinesMap)))
       \cap MomentumUniverse # {}

\* The assets of pin that have the 30 candles the universes require.
RankedAssets ==
  {a \in Range(pin.assets) :
     a \in DOMAIN pin.klinesMap /\ pin.klinesMap[a].n >= MinFactorCandles}

\* C30: with n assets of at least 30 candles the momentum universe has
\* min(n, 25) symbols and the mean-reversion universe min(25, max(0, n - 25)),
\* none when n <= 25; for n <= 50 the two cover all n assets; and no
\* mean-reversion asset has a larger 30-day dollar volume than a momentum
\* asset.
C30_UniverseSizesAndOrder ==
  px # NoResult =>
    LET n == Cardinality(RankedAssets)
    IN /\ Cardinality(Symbols(px.momentum)) = Min(n, UniverseSize)
       /\ Cardinality(Symbols(px.meanReversion))
            = Min(UniverseSize, Max(0, n - UniverseSize))
       /\ n <= UniverseSize => px.meanReversion = << >>
       /\ n <= 2 * UniverseSize =>
            Symbols(px.momentum) \cup Symbols(px.meanReversion) = RankedAssets
       /\ \A a \in Symbols(px.momentum), b \in Symbols(px.meanReversion) :
            DollarVolume(pin.klinesMap[a]) >= DollarVolume(pin.klinesMap[b])

\* Fifty assets of which 38 have 30 candles, with volumes that rise along
\* the list: 25 are ranked for momentum and the 13 with the smallest volumes
\* for mean reversion.
C30_Witness ==
  /\ px # NoResult
  /\ Len(pin.assets) = Len(AllAssets)
  /\ Cardinality(RankedAssets) = 38
  /\ Len(px.momentum) = UniverseSize
  /\ Len(px.meanReversion) = 13
  /\ \E a \in Symbols(px.momentum), b \in Symbols(px.meanReversion) :
       DollarVolume(pin.klinesMap[a]) > DollarVolume(pin.klinesMap[b])

(***************************************************************************)
(* The statistics functions on their own, on datasets of at most MaxLen    *)
(* values of -MaxAbs..MaxAbs.                                              *)
(***************************************************************************)
Values == (0 - MaxAbs)..MaxAbs

Datasets == UNION {[1..n -> Values] : n \in 0..MaxLen}

InitPercentile ==
  /\ Quiet
  /\ \E d \in Datasets, v \in Values, a \in BOOLEAN :
       pin = [data |-> d, value |-> v, absolute |-> a]
  /\ px = NoResult

PercentileRank ==
  /\ px = NoResult
  /\ px' = [rank |-> calculatePercentile(pin.data, pin.value, pin.absolute),
            arrays |-> calculatePercentileArrays(pin.data, pin.absolute),
            median |-> calculateMedian(pin.data),
            medianArrays |-> calculateMedianArrays(pin.data),
            funding |-> IF Len(pin.data) > 0
                          THEN fundingPercentileOf(pin.data) ELSE NoMetric,
            volatility |-> IF Len(pin.data) > 0
                             THEN volatilityPercentileOf(pin.data) ELSE NoMetric]
  /\ UNCHANGED <<klineCache, fundingCache, runs, started, loading, error, now, pin>>

NextPercentile == PercentileRank

SpecPercentile == InitPercentile /\ [][NextPercentile]_vars

\* The dataset and the probe of pin as calculatePercentile compares them.
Compared(x) == IF pin.absolute THEN Abs(x) ELSE x

\* How many elements of the dataset of pin satisfy the strict comparison
\* with the probe, and how many equal it.
CountBelow ==
  Cardinality({i \in 1..Len(pin.data) : Compared(pin.data[i]) < Compared(pin.value)})

CountEqual ==
  Cardinality({i \in 1..Len(pin.data) : Compared(pin.data[i]) = Compared(pin.value)})

\* The probe is the maximum of the dataset as it is compared.
ProbeIsMaximum ==
  /\ Len(pin.data) > 0
  /\ \E i \in 1..Len(pin.data) : Compared(pin.data[i]) = Compared(pin.value)
  /\ \A i \in 1..Len(pin.data) : Compared(pin.data[i]) <= Compared(pin.value)

\* C11, as stated: for a non-empty dataset of n values and a probe equal to
\* its maximum, the rank lies within [100 * (n - 1) / n, 100].
C11_AsStated ==
  px # NoResult /\ ProbeIsMaximum =>
    /\ px.rank.num * Len(pin.data) >= 100 * (Len(pin.data) - 1) * px.rank.den
    /\ px.rank.num <= 100 * px.rank.den

\* C11, amended: for a non-empty dataset of n values and a probe equal to
\* its maximum, the rank is 100 * (n - k) / n, where k >= 1 is the number
\* of elements equal to the maximum: it is 100 * (n - 1) / n when the
\* maximum occurs once, lower when it is tied, 0 when all values are equal,
\* and never 100.
C11_RankOfMaximum ==
  px # NoResult /\ ProbeIsMaximum =>
    /\ px.rank.den = Len(pin.data)
    /\ px.rank.num = 100 * (Len(pin.data) - CountEqual)
    /\ px.rank.num < 100 * px.rank.den
    /\ CountEqual = 1 => px.rank.num = 100 * (Len(pin.data) - 1)

\* A dataset whose maximum occurs twice has been ranked below 100 * (n - 1) / n.
C11_Witness ==
  /\ px # NoResult
  /\ ProbeIsMaximum
  /\ Len(pin.data) = 3
  /\ CountEqual = 2
  /\ px.rank = [num |-> 100, den |-> 3]

\* C12: for a non-empty dataset the rank is 100 * (number of elements
\* strictly less than the probe) / (dataset size), elements and probe being
\* replaced by their absolute values when absolute is set: a probe not
\* greater than any element ranks 0, and only a probe greater than every
\* element ranks 100.
C12_RankCountsStrictlyLess ==
  px # NoResult /\ Len(pin.data) > 0 =>
    /\ px.rank.den = Len(pin.data)
    /\ px.rank.num = 100 * CountBelow
    /\ (\A i \in 1..Len(pin.data) : Compared(pin.value) <= Compared(pin.data[i]))
         => px.rank.num = 0
    /\ px.rank.num = 100 * px.rank.den
         <=> \A i \in 1..Len(pin.data) : Compared(pin.value) > Compared(pin.data[i])

\* Identical values with a negative probe ranked by magnitude: rank 0; the
\* same dataset ranks a larger probe at 100.
C12_Witness ==
  /\ px # NoResult
  /\ Len(pin.data) = 3
  /\ pin.absolute
  /\ pin.value < 0
  /\ \A i \in 1..3 : pin.data[i] = 0 - pin.value
  /\ px.rank.num = 0

C27_MemberProbeBelowHundred ==
  px # NoResult /\ Len(pin.data) > 0 =>
    \A rank \in {px.funding, px.volatility} :
      /\ rank.den = Len(pin.data)
      /\ rank.num >= 0
      /\ rank.num <= 100 * (Len(pin.data) - 1)
      /\ rank.num < 100 * rank.den
      /\ Len(pin.data) = 1 => rank.num = 0

\* Three values whose last has the largest magnitude and whose first is the
\* largest: both processors report 100 * 2 / 3.
C27_Witness ==
  /\ px # NoResult
  /\ Len(pin.data) = 3
  /\ px.funding = [num |-> 200, den |-> 3]
  /\ px.volatility = [num |-> 200, den |-> 3]

(***************************************************************************)
(* processCorrelationData on its own, on maps whose series have candle     *)
(* counts around the 30 anchor dates, the 90-day threshold of the rolling  *)
(* history and the fetch limit.  All series end on the same day, so an     *)
(* asset lacks a date of the reference asset when its history is shorter.  *)
(***************************************************************************)
\* Alternating closes in the other phase, and with a larger swing.
WavyProfileShifted == [FlatProfile EXCEPT !.c0 = 1, !.c1 = 2, !.rs = 1]
WavyProfileWide == [FlatProfile EXCEPT !.c0 = 4, !.c1 = 1, !.rs = 1]

CorrelationProfiles == {FlatProfile, WavyProfile, WavyProfileShifted, WavyProfileWide}

ReferenceProfiles == {FlatProfile, WavyProfile}

ReferenceCounts == {1, 2, 30, 31, 32, 90, 91, 92, 180, 181, 182, KlineLimit}

\* The series of another asset: a single candle, one return short of the
\* anchor dates, just enough for them, and the fetch limit.
CorrelationSeries(a) ==
  IF a = "BTC"
    THEN {Series(a, 1, n, p) : n \in ReferenceCounts, p \in ReferenceProfiles}
    ELSE {Series(a, 1, 1, FlatProfile),
          Series(a, 1, CorrelationDates, WavyProfile),
          Series(a, 1, CorrelationDates + 1, WavyProfileShifted),
          Series(a, 1, KlineLimit, WavyProfileWide),
          Series(a, 1, KlineLimit, FlatProfile)}

\* The maps that hold one of its series for each asset of D.
CorrelationMaps(D) ==
  {m \in [D -> UNION {CorrelationSeries(a) : a \in D}] :
     \A a \in D : m[a] \in CorrelationSeries(a)}

InitCorrelationData ==
  /\ Quiet
  /\ \E D \in SUBSET AssetSet :
       \E k \in CorrelationMaps(D) : pin = [klinesMap |-> k]
  /\ px = NoResult

\* validAssets of getDashboardData for the map of pin.
CorrelationAssets == SelectSeq(TARGET_ASSETS, LAMBDA a : a \in DOMAIN pin.klinesMap)

CorrelationData ==
  /\ px = NoResult
  /\ px' = [correlation |-> processCorrelationData(CorrelationAssets, pin.klinesMap),
            aligned |-> IF "BTC" \in DOMAIN pin.klinesMap
                          THEN alignedReturnsOf(CorrelationAssets, pin.klinesMap)
                          ELSE EmptyMap,
            altSlice |-> IF "BTC" \in DOMAIN pin.klinesMap
                           THEN altSliceOf(CorrelationAssets, pin.klinesMap)
                           ELSE EmptyMap]
  /\ UNCHANGED <<klineCache, fundingCache, runs, started, loading, error, now, pin>>

NextCorrelationData == CorrelationData

SpecCorrelationData == InitCorrelationData /\ [][NextCorrelationData]_vars

\* Two coefficients are the same number: the same numerator over the root
\* of the same two factors, in either order.
SameCorr(a, b) ==
  /\ a.num = b.num
  /\ <<a.dx, a.dy>> \in {<<b.dx, b.dy>>, <<b.dy, b.dx>>}

AnchorDates ==
  0..(Min(CorrelationDates, pin.klinesMap["BTC"].n - 1) - 1)

\* The asset of pin has a candle on the date at offset d and one on the day
\* before it.
HasDailyReturn(a, d) == pin.klinesMap[a].n >= d + 2

\* C14: an asset is listed in the matrix iff it has a daily return on every
\* one of the reference asset's most recent 30 return dates; the aligned
\* vector of a listed asset has one entry per anchor date, each of them the
\* asset's own return on that date.
C14_ListedIffReturnOnEveryAnchorDate ==
  px # NoResult /\ "BTC" \in DOMAIN pin.klinesMap =>
    /\ Range(px.correlation.matrix.assets) =
         {a \in DOMAIN pin.klinesMap : \A d \in AnchorDates : HasDailyReturn(a, d)}
    /\ DOMAIN px.aligned = Range(px.correlation.matrix.assets)
    /\ \A a \in DOMAIN px.aligned :
         /\ Len(px.aligned[a]) = Cardinality(AnchorDates)
         /\ \A i \in 1..Len(px.aligned[a]) :
              px.aligned[a][i] = ReturnAt(pin.klinesMap[a], Len(px.aligned[a]) - i)

\* An asset with a return on all but the oldest of the 30 anchor dates is
\* absent from the matrix, which lists the reference asset.
C14_Witness ==
  /\ px # NoResult
  /\ "BTC" \in DOMAIN pin.klinesMap
  /\ Cardinality(AnchorDates) = CorrelationDates
  /\ \E a \in DOMAIN pin.klinesMap :
       /\ pin.klinesMap[a].n = CorrelationDates
       /\ a \notin Range(px.correlation.matrix.assets)
  /\ "BTC" \in Range(px.correlation.matrix.assets)
  /\ Len(px.aligned["BTC"]) = CorrelationDates


(***************************************************************************)
(* calculateCorrelation on its own.  x is any dataset, y a series          *)
(* a + b * i of any length; with them comes the rounding of the three      *)
(* differences.  In IEEE-754 doubles the differences of a series of three  *)
(* or more copies of one non-zero value come out negative, zero or         *)
(* positive (30 copies of Math.log(2): 1.7e-13, of Math.log(3): -6.8e-13); *)
(* those of zeros, of fewer than three values and of varying values keep   *)
(* the sign of the exact difference.                                       *)
(***************************************************************************)
LinearSeries ==
  {[i \in 1..n |-> a + b * i] : a \in Values, b \in {-1, 0, 1}, n \in 0..MaxLen}

IsConstant(s) == \A i \in 1..Len(s) : s[i] = s[1]

IsRounded(s) == IsConstant(s) /\ Len(s) > 2 /\ s[1] # 0

Residues(rounded) == IF rounded THEN {-1, 0, 1} ELSE {0}

Roundings(x, y) ==
  IF Len(x) # Len(y) THEN {Exact}
  ELSE {[num |-> en, dx |-> ex, dy |-> ey] :
          en \in Residues((IsRounded(x) \/ IsRounded(y))
                             /\ (\E i \in 1..Len(x) : x[i] # 0)
                             /\ (\E i \in 1..Len(y) : y[i] # 0)),
          ex \in Residues(IsRounded(x)),
          ey \in Residues(IsRounded(y))}

InitCorrelation ==
  /\ Quiet
  /\ \E x \in Datasets, y \in LinearSeries :
       \E e \in Roundings(x, y) : pin = [x |-> x, y |-> y, e |-> e]
  /\ px = NoResult

Correlation ==
  /\ px = NoResult
  /\ px' = [corr |-> calculateCorrelationRounded(pin.x, pin.y, pin.e)]
  /\ UNCHANGED <<klineCache, fundingCache, runs, started, loading, error, now, pin>>

NextCorrelation == Correlation

SpecCorrelation == InitCorrelation /\ [][NextCorrelation]_vars

\* C15: calculateCorrelation returns exactly 0 when the inputs are empty,
\* have different lengths, or either series is constant.
C15_ZeroFallback ==
  px # NoResult
    /\ (Len(pin.x) = 0 \/ Len(pin.x) # Len(pin.y)
          \/ IsConstant(pin.x) \/ IsConstant(pin.y))
    => px.corr = ZeroCorr

\* The part of C15 that holds: 0 for empty inputs, for inputs of different
\* lengths, and for a series of zeros (the returns of a constant price).
C15_ZeroForEmptyMismatchedOrZeroSeries ==
  px # NoResult
    /\ (Len(pin.x) = 0 \/ Len(pin.x) # Len(pin.y)
          \/ (\A i \in 1..Len(pin.x) : pin.x[i] = 0)
          \/ (\A i \in 1..Len(pin.y) : pin.y[i] = 0))
    => px.corr = ZeroCorr

\* Two constant non-zero series whose coefficient is NaN.
C15_NaNReached ==
  /\ px # NoResult
  /\ Len(pin.x) = Len(pin.y)
  /\ IsConstant(pin.x) /\ IsConstant(pin.y)
  /\ px.corr # ZeroCorr
  /\ px.corr.dx > 0
  /\ px.corr.dy < 0


(***************************************************************************)
(* calculateFactorScores on its own: the symbols ScoreAssets, of which the *)
(* universe is all or all but the last, two periods, every signal function *)
(* from (symbol, days) to null or one of three values, and the three       *)
(* scoreFn of processFactorMetrics.                                        *)
(***************************************************************************)
ScoreAssets == SubSeq(AllAssets, 1, NumAssets + 1)

ScorePeriods == SubSeq(Periods, 1, 2)

SignalValues == {NullSignal, Signal(0), Signal(SigUnit), Signal(2 * SigUnit)}

InitScores ==
  /\ Quiet
  /\ \E k \in {Len(ScoreAssets) - 1, Len(ScoreAssets)},
        s \in [Range(ScoreAssets) \X Range(ScorePeriods) -> SignalValues],
        f \in {Minus, Inverted, Plain} :
       pin = [universe |-> SubSeq(ScoreAssets, 1, k), periods |-> ScorePeriods,
              signalFn |-> s, scoreFn |-> f]
  /\ px = NoResult

FactorScores ==
  /\ px = NoResult
  /\ px' = [scores |-> calculateFactorScores(pin.universe, pin.periods,
                                             pin.signalFn, pin.scoreFn)]
  /\ UNCHANGED <<klineCache, fundingCache, runs, started, loading, error, now, pin>>

NextScores == FactorScores

SpecScores == InitScores /\ [][NextScores]_vars

\* The median of the non-null signals of the universe members for the
\* period at position p.
UniverseMedian(p) ==
  LET members == SelectSeq(pin.universe,
                           LAMBDA sym : pin.signalFn[sym, pin.periods[p]].ok)
  IN calculateMedian([i \in 1..Len(members) |->
                        pin.signalFn[members[i], pin.periods[p]].val])

\* The positions of the periods in which the symbol has a non-null signal.
ValidPeriods(sym) ==
  {p \in 1..Len(pin.periods) : pin.signalFn[sym, pin.periods[p]].ok}

\* The sum over the valid periods of scoreFn(signal, median).
ScoreSum(sym) ==
  SumSeq([p \in 1..Len(pin.periods) |->
            IF p \in ValidPeriods(sym)
              THEN pin.scoreFn.sig * pin.signalFn[sym, pin.periods[p]].val
                     + pin.scoreFn.med * UniverseMedian(p)
              ELSE 0])

\* C16: the median of a period is taken over the non-null signals of the
\* universe members only; the score of an asset is the mean of
\* scoreFn(signal, median) over exactly the periods in which its signal is
\* non-null; an asset without any non-null signal is absent; each universe
\* symbol appears at most once; the result is ordered by non-increasing
\* score.
C16_ScoresAreMeansOverValidPeriods ==
  px # NoResult =>
    /\ Symbols(px.scores) = {sym \in Range(pin.universe) : ValidPeriods(sym) # {}}
    /\ Len(px.scores) = Cardinality(Symbols(px.scores))
    /\ \A i \in 1..Len(px.scores) :
         px.scores[i].score * Cardinality(ValidPeriods(px.scores[i].symbol))
           = ScoreSum(px.scores[i].symbol)
    /\ \A i \in 1..Len(px.scores) : \A j \in (i + 1)..Len(px.scores) :
         px.scores[i].score >= px.scores[j].score

\* A universe with a member that has no signal at all (absent), a member
\* with a signal in one period only, and a symbol outside the universe that
\* has signals.
C16_Witness ==
  /\ px # NoResult
  /\ Len(pin.universe) < Len(ScoreAssets)
  /\ ValidPeriods(ScoreAssets[Len(ScoreAssets)]) # {}
  /\ \E sym \in Range(pin.universe) :
       ValidPeriods(sym) = {} /\ sym \notin Symbols(px.scores)
  /\ \E i \in 1..Len(px.scores) :
       Cardinality(ValidPeriods(px.scores[i].symbol)) = 1


\* The number of daily returns of the reference asset of pin.
ReferenceReturns == pin.klinesMap["BTC"].n - 1

\* C17: the rolling history has min(90, max(0, N - 90)) points for a
\* reference asset with N daily returns, never more than 90; every emitted
\* date has at least 90 earlier return dates, so that the windows of 10,
\* 30, 60 and 90 dates lie inside the reference series; each point carries
\* the four window values; the dates are strictly increasing.
C17_HistoryLengthAndOrder ==
  px # NoResult /\ "BTC" \in DOMAIN pin.klinesMap =>
    LET history == px.correlation.history
    IN /\ Len(history) = Min(DaysToGraph, Max(0, ReferenceReturns - MinTargetIdx))
       /\ Len(history) <= DaysToGraph
       /\ \A q \in 1..Len(history) :
            /\ DOMAIN history[q] = {"date", "corr10", "corr30", "corr60", "corr90"}
            /\ history[q].date <= 0
            \* the return dates before the date -d are the offsets d+1 .. N-1
            /\ (ReferenceReturns - 1) - (0 - history[q].date) >= MinTargetIdx
            /\ \A w \in Range(RollingWindows) :
                 (0 - history[q].date) + w - 1 <= ReferenceReturns - 1
       /\ \A q \in 1..(Len(history) - 1) : history[q].date < history[q + 1].date

\* A reference asset with 179 returns has a history of 89 points, from the
\* date 88 days back to the latest date.
C17_Witness ==
  /\ px # NoResult
  /\ "BTC" \in DOMAIN pin.klinesMap
  /\ ReferenceReturns = MinTargetIdx + DaysToGraph - 1
  /\ Len(px.correlation.history) = DaysToGraph - 1
  /\ px.correlation.history[1].date = 0 - (DaysToGraph - 2)
  /\ px.correlation.history[DaysToGraph - 1].date = 0


\* The valid assets other than the reference asset that have a return on
\* the date at offset j, whether or not they are in the matrix.
ValidAltsWithReturn(j) ==
  SelectSeq(CorrelationAssets,
            LAMBDA a : a # "BTC" /\ HasReturn(pin.klinesMap[a], j))

\* The same among the assets of the matrix.
MatrixAltsWithReturn(j) ==
  SelectSeq(CorrelationAssets,
            LAMBDA a : a # "BTC" /\ a \in DOMAIN px.aligned
                       /\ HasReturn(pin.klinesMap[a], j))

SumOfReturns(have, j) ==
  SumSeq([q \in 1..Len(have) |-> ReturnAt(pin.klinesMap[have[q]], j)])

\* C23: on every date that enters the rolling history, the average-altcoin
\* return is the mean of the returns of all valid non-reference assets that
\* have a return on that date, those left out of the matrix included.
C23_AverageOverAllValidAssets ==
  px # NoResult =>
    \A j \in DOMAIN px.altSlice :
      Len(ValidAltsWithReturn(j)) > 0 =>
        px.altSlice[j] * Len(ValidAltsWithReturn(j))
          = SumOfReturns(ValidAltsWithReturn(j), j)

\* What the processor computes: the mean over the assets of the matrix that
\* have a return on the date, 0 when there is none.
C23_AverageOverMatrixAssets ==
  px # NoResult =>
    \A j \in DOMAIN px.altSlice :
      IF Len(MatrixAltsWithReturn(j)) > 0
        THEN px.altSlice[j] * Len(MatrixAltsWithReturn(j))
               = SumOfReturns(MatrixAltsWithReturn(j), j)
        ELSE px.altSlice[j] = 0

\* An asset with 29 returns is not in the matrix; on the latest date it has a
\* non-zero return, and the average-altcoin return of that date is 0.
C23_LeftOutAssetIgnored ==
  /\ px # NoResult
  /\ "BTC" \in DOMAIN px.aligned
  /\ 0 \in DOMAIN px.altSlice
  /\ \E a \in DOMAIN pin.klinesMap :
       /\ a \notin DOMAIN px.aligned
       /\ HasReturn(pin.klinesMap[a], 0)
       /\ ReturnAt(pin.klinesMap[a], 0) # 0
  /\ px.altSlice[0] = 0
  /\ Len(px.correlation.history) = DaysToGraph

(***************************************************************************)
(* processBreadthMetrics on its own, on maps whose reference series has a  *)
(* candle count around the minimum of 600 and whose other series are       *)
(* shorter than, as long as, or longer than the analysed 500 days.         *)
(***************************************************************************)
BreadthReferenceCounts == {1, 599, 600, KlineLimit}

BreadthOtherCounts == {1, 21, 599, KlineLimit}

BreadthSeries(a) ==
  IF a = "BTC"
    THEN {Series(a, 1, n, p) :
            n \in BreadthReferenceCounts, p \in {FlatProfile, WavyProfile}}
    ELSE {Series(a, 1, n, WavyProfile) : n \in BreadthOtherCounts}
           \cup {Series(a, 1, KlineLimit, FlatProfile)}

BreadthMaps(D) ==
  {m \in [D -> UNION {BreadthSeries(a) : a \in D}] :
     \A a \in D : m[a] \in BreadthSeries(a)}

InitBreadth ==
  /\ Quiet
  /\ \E D \in SUBSET AssetSet :
       \E k \in BreadthMaps(D) : pin = [klinesMap |-> k]
  /\ px = NoResult

BreadthMetrics ==
  /\ px = NoResult
  /\ px' = [breadth |-> processBreadthMetrics(CorrelationAssets, pin.klinesMap)]
  /\ UNCHANGED <<klineCache, fundingCache, runs, started, loading, error, now, pin>>

NextBreadth == BreadthMetrics

SpecBreadth == InitBreadth /\ [][NextBreadth]_vars

\* C18: two empty series when the reference asset has fewer than 600
\* candles or none; otherwise both series have exactly 500 points, the
\* point at position i carrying the date of the i-th of the reference
\* asset's last 500 candles, oldest first, the same date in both series.
C18_BreadthSeriesLengths ==
  px # NoResult =>
    IF "BTC" \notin DOMAIN pin.klinesMap
      THEN px.breadth = EmptyBreadth
      ELSE IF pin.klinesMap["BTC"].n < 600
        THEN px.breadth = EmptyBreadth
        ELSE /\ Len(px.breadth.aboveSma) = 500
             /\ Len(px.breadth.rangePosition) = 500
             /\ \A i \in 1..500 :
                  /\ px.breadth.aboveSma[i].date = 0 - (500 - i)
                  /\ px.breadth.rangePosition[i].date = px.breadth.aboveSma[i].date

\* A reference asset with exactly 600 candles and another asset with fewer:
\* 500 points in each series, from the date 499 days back to the latest.
C18_Witness ==
  /\ px # NoResult
  /\ "BTC" \in DOMAIN pin.klinesMap
  /\ pin.klinesMap["BTC"].n = 600
  /\ \E a \in DOMAIN pin.klinesMap : pin.klinesMap[a].n < 600
  /\ Len(px.breadth.aboveSma) = 500
  /\ Len(px.breadth.rangePosition) = 500
  /\ px.breadth.aboveSma[1].date = -499
  /\ px.breadth.rangePosition[500].date = 0


\* The value of a breadth point for the period p.
ValueFor(point, p) ==
  IF p = BreadthPeriods[1] THEN point.val20
  ELSE IF p = BreadthPeriods[2] THEN point.val50
  ELSE point.val100

\* The assets eligible for the period p on the day at offset time: they have
\* a candle on that day, at an index of at least p in their own history.
Eligible(time, p) ==
  SelectSeq(CorrelationAssets,
            LAMBDA a : /\ time <= pin.klinesMap[a].n - 1
                       /\ pin.klinesMap[a].n - 1 - time >= p)

\* Those of them whose close is above the mean of their trailing p closes.
AboveMean(time, p) ==
  SelectSeq(Eligible(time, p),
            LAMBDA a : CloseAt(pin.klinesMap[a], time) * p
                         > SumSeq([q \in 1..p |-> CloseAt(pin.klinesMap[a], time + q - 1)]))

\* Those of them whose trailing p closes are not all equal.
WithRange(time, p) ==
  SelectSeq(Eligible(time, p),
            LAMBDA a : \E q \in 1..(p - 1) :
                         CloseAt(pin.klinesMap[a], time + q)
                           # CloseAt(pin.klinesMap[a], time))

\* The sum of the range positions of these assets, in hundredths.
SumOfRangePositions(time, p) ==
  SumSeq([q \in 1..Len(WithRange(time, p)) |->
            rhlOf(pin.klinesMap[WithRange(time, p)[q]], time, p)])

\* C24: on every date of the timeline and for every period p,
\* rangePosition[p] is 100 times the sum of the range positions divided by
\* the number of eligible assets, the denominator of aboveSma[p]; an
\* eligible asset whose window has no range counts in the denominator.
C24_RangePositionOverEligible ==
  px # NoResult =>
    \A i \in 1..Len(px.breadth.rangePosition), p \in Range(BreadthPeriods) :
      LET point == px.breadth.rangePosition[i]
          time == 0 - point.date
      IN /\ ValueFor(point, p).num * Len(Eligible(time, p))
              = SumOfRangePositions(time, p) * ValueFor(point, p).den
         /\ Len(Eligible(time, p)) > 0 =>
              ValueFor(px.breadth.aboveSma[i], p).den = Len(Eligible(time, p))

\* What the processor computes: the sum of the range positions divided by
\* the number of eligible assets whose window has a range, 0 when there is
\* none.
C24_RangePositionOverRanged ==
  px # NoResult =>
    \A i \in 1..Len(px.breadth.rangePosition), p \in Range(BreadthPeriods) :
      LET point == px.breadth.rangePosition[i]
          time == 0 - point.date
      IN IF Len(WithRange(time, p)) > 0
           THEN ValueFor(point, p) = [num |-> SumOfRangePositions(time, p),
                                      den |-> Len(WithRange(time, p))]
           ELSE ValueFor(point, p) = ZeroFraction

\* Two eligible assets on the latest date, one with constant closes: the
\* range position of the other alone is reported, over a denominator of 1.
C24_FlatAssetLeftOut ==
  /\ px # NoResult
  /\ Len(px.breadth.rangePosition) = AnalysisHistory
  /\ Len(Eligible(0, BreadthPeriods[1])) = 2
  /\ Len(WithRange(0, BreadthPeriods[1])) = 1
  /\ px.breadth.rangePosition[AnalysisHistory].val20.den = 1
  /\ px.breadth.rangePosition[AnalysisHistory].val20.num > 0

\* C25: on every date of the timeline and for every period p, aboveSma[p]
\* is 100 * (eligible assets whose close exceeds the mean of their trailing
\* p closes) / (eligible assets), and 0 when no asset is eligible;
\* eligibility is decided per date and per period, and the value lies
\* within [0, 100].
C25_AboveSmaOverEligible ==
  px # NoResult =>
    \A i \in 1..Len(px.breadth.aboveSma), p \in Range(BreadthPeriods) :
      LET point == px.breadth.aboveSma[i]
          time == 0 - point.date
      IN /\ IF Len(Eligible(time, p)) > 0
              THEN ValueFor(point, p) = [num |-> 100 * Len(AboveMean(time, p)),
                                         den |-> Len(Eligible(time, p))]
              ELSE ValueFor(point, p) = ZeroFraction
         /\ ValueFor(point, p).num >= 0
         /\ ValueFor(point, p).num <= 100 * ValueFor(point, p).den

\* An asset with 21 candles next to a reference asset with alternating
\* closes: it is eligible for the period 20 on the latest date only, where
\* the denominator is 2 and one of the two is above its mean; the day before
\* the denominator is 1.
C25_Witness ==
  /\ px # NoResult
  /\ Len(px.breadth.aboveSma) = AnalysisHistory
  /\ \E a \in DOMAIN pin.klinesMap : pin.klinesMap[a].n = BreadthPeriods[1] + 1
  /\ px.breadth.aboveSma[AnalysisHistory].val20.den = 2
  /\ px.breadth.aboveSma[AnalysisHistory - 1].val20.den = 1
  /\ px.breadth.aboveSma[AnalysisHistory].val50.den = 1
  /\ px.breadth.aboveSma[AnalysisHistory].val20.num > 0

(***************************************************************************)
(* getTrendScore on its own, on series with candle counts from below the   *)
(* warm-up of the shortest period to above three times the longest one.    *)
(***************************************************************************)
InitTrend ==
  /\ Quiet
  /\ \E n \in (TrendWarmup - 5)..(3 * TrendPeriods[4] + 5),
        p \in {FlatProfile, WavyProfile},
        q \in 1..Len(TrendPeriods) :
       pin = [klinesMap |-> [a \in {"BTC"} |-> Series(a, 1, n, p)],
              symbol |-> "BTC", days |-> TrendPeriods[q]]
  /\ px = NoResult

TrendScore ==
  /\ px = NoResult
  /\ px' = [signal |-> getTrendScore(pin.klinesMap, pin.symbol, pin.days),
            signalSeries |-> trendSignalSeries(pin.klinesMap[pin.symbol], pin.days)]
  /\ UNCHANGED <<klineCache, fundingCache, runs, started, loading, error, now, pin>>

NextTrend == TrendScore

SpecTrend == InitTrend /\ [][NextTrend]_vars

\* C26: whenever getTrendScore yields a signal, the series handed to the
\* EMA has exactly 2 * period points; no point is skipped for lack of
\* earlier candles.
C26_FullSignalSeries ==
  px # NoResult /\ px.signal.ok => Len(px.signalSeries) = 2 * pin.days

\* What the function computes: a signal from days + 50 candles on, over the
\* points of the last 2 * days cursors whose window of days closes starts
\* inside the series, which are all of them only from 3 * days - 1 candles
\* on; that is the case for the periods 5, 10 and 20 whenever there is a
\* signal.
C26_SeriesOverAvailableWindows ==
  px # NoResult =>
    LET n == pin.klinesMap[pin.symbol].n
    IN /\ px.signal.ok <=> (n >= pin.days + TrendWarmup)
       /\ Len(px.signalSeries) = Max(0, Min(2 * pin.days, n - pin.days + 1))
       /\ (px.signal.ok /\ pin.days < TrendPeriods[4])
            => Len(px.signalSeries) = 2 * pin.days

\* An asset with 90 candles has a 40-day signal, smoothed over 51 points.
C26_ShortSeriesSmoothed ==
  /\ px # NoResult
  /\ pin.days = TrendPeriods[4]
  /\ pin.klinesMap[pin.symbol].n = pin.days + TrendWarmup
  /\ px.signal.ok
  /\ Len(px.signalSeries) = TrendWarmup + 1

(***************************************************************************)
(* The fetch operations of a run and the cache keys they touch (checked    *)
(* under Spec).                                                            *)
(***************************************************************************)
\* The fetches that have issued a request and not yet settled, as
\* <<run, asset>>.
InFlightKlines ==
  {<<r, a>> \in (1..MaxRuns) \X AssetSet : runs[r].kf[a].st \in {"direct", "relay"}}

InFlightFunding ==
  {<<r, a>> \in (1..MaxRuns) \X AssetSet : runs[r].ff[a].st \in {"direct", "relay"}}

\* The call has been made once and was not answered from the cache.
IssuedOnce(f) ==
  /\ f.st \in {"direct", "relay", "resolved"}
  /\ ~f.hit
  /\ f.reqs \in {1, 2}

\* C19: within a run every candle cache key and every funding cache key is
\* touched by exactly one fetch: the symbols of the universe are distinct,
\* each asset has exactly one candle fetch while the run awaits the candles
\* and one funding fetch while it awaits the funding histories, none of
\* them answered from an entry another fetch wrote, every cache entry was
\* written by the fetch of its own asset, and no two fetches in flight have
\* the same key.
C19_OneFetchPerCacheKey ==
  /\ \A i, j \in 1..Len(AllAssets) : i # j => AllAssets[i] # AllAssets[j]
  /\ \A r \in 1..MaxRuns :
       /\ runs[r].pc \in {"idle", "settled"} =>
            \A a \in AssetSet : runs[r].kf[a].st = "none" /\ runs[r].ff[a].st = "none"
       /\ runs[r].pc = "klines" =>
            \A a \in AssetSet : IssuedOnce(runs[r].kf[a]) /\ runs[r].ff[a].st = "none"
       /\ runs[r].pc = "funding" =>
            \A a \in AssetSet : runs[r].kf[a].st = "consumed" /\ IssuedOnce(runs[r].ff[a])
  /\ \A p, q \in InFlightKlines :
       p # q => KlineKey(p[2], KlineInterval, KlineLimit)
                  # KlineKey(q[2], KlineInterval, KlineLimit)
  /\ \A p, q \in InFlightFunding : p # q => p[2] # q[2]
  /\ \A k \in DOMAIN klineCache :
       /\ klineCache[k].run = started
       /\ k = KlineKey(klineCache[k].sym, KlineInterval, KlineLimit)
  /\ \A k \in DOMAIN fundingCache :
       /\ fundingCache[k].run = started
       /\ k = fundingCache[k].sym

\* The second run awaits its funding fetches, all of them in flight, after
\* its candle fetches have written one cache entry per asset.
C19_Witness ==
  /\ started = 2
  /\ runs[2].pc = "funding"
  /\ InFlightFunding = {2} \X AssetSet
  /\ DOMAIN klineCache = {KlineKey(a, KlineInterval, KlineLimit) : a \in AssetSet}
  /\ Cardinality(DOMAIN klineCache) = NumAssets

\* The runs App has started and not yet taken the outcome of.
InFlightRuns ==
  {r \in 1..MaxRuns : runs[r].pc \in {"klines", "funding", "resolved", "rejected"}}

\* C20: App serializes refreshes: at most one run of getDashboardData is in
\* flight in every reachable state; it is the latest one, and from its
\* start until App has taken its outcome loading is set, which disables the
\* refresh button.
C20_RefreshesSerialized ==
  /\ Cardinality(InFlightRuns) <= 1
  /\ InFlightRuns \subseteq {started}
  /\ InFlightRuns # {} => loading
  /\ ~loading => started > 0 /\ runs[started].pc = "settled"

\* A refresh has started the second run after the first one settled.
C20_Witness ==
  /\ started = 2
  /\ runs[1].pc = "settled"
  /\ runs[2].pc \in {"klines", "funding"}
  /\ loading

(***************************************************************************)
(* What reaches the caches (checked under Spec).                           *)
(***************************************************************************)
\* The call f has a request pending and has settled as g in this step.
SettlesAs(f, g) == f.st \in {"direct", "relay"} /\ g.st = "resolved"

\* The settled call g of the asset a returned the rows of an array body: a
\* call that has nothing returns the literal [], which belongs to no asset.
GotArray(g, a) == g.val.sym = a /\ (g.direct = "ok" \/ g.relay = "ok")

\* The effect on the caches of a candle fetch, and of a funding fetch, that
\* settles in this step.
KlineSettleEffect(r, a) ==
  LET key == KlineKey(a, KlineInterval, KlineLimit)
      g == runs'[r].kf[a]
  IN IF GotArray(g, a)
       THEN klineCache' = Put(klineCache, key, g.val) /\ fundingCache' = fundingCache
       ELSE /\ g.val = EmptyKlines
            /\ klineCache' = klineCache /\ fundingCache' = fundingCache
            /\ fetchKlinesCall(klineCache', a, KlineInterval, KlineLimit)
                 = IssueDirect(EmptyKlines)

FundingSettleEffect(r, a) ==
  LET g == runs'[r].ff[a]
  IN IF GotArray(g, a)
       THEN fundingCache' = Put(fundingCache, a, g.val) /\ klineCache' = klineCache
       ELSE /\ g.val = EmptyFunding
            /\ klineCache' = klineCache /\ fundingCache' = fundingCache
            /\ fetchFundingRatesCall(fundingCache', a) = IssueDirect(EmptyFunding)

\* A cache changes only when a run starts, which empties both, or when one
\* fetch settles.
CachesChangeBySettleOrStart ==
  klineCache' # klineCache \/ fundingCache' # fundingCache =>
    \/ started' = started + 1 /\ klineCache' = EmptyMap /\ fundingCache' = EmptyMap
    \/ \E r \in 1..MaxRuns, a \in AssetSet :
         \/ SettlesAs(runs[r].kf[a], runs'[r].kf[a])
         \/ SettlesAs(runs[r].ff[a], runs'[r].ff[a])

\* C28: a cache entry exists only for a key whose fetch succeeded with an
\* array response.  A fetch that settles after both requests failed, or
\* after a body that is not an array, leaves both caches as they were, and
\* a fetch of its key would go to the transport again; a fetch that settles
\* with an array stores exactly that array under its own key; nothing else
\* writes an entry.
C28_CacheHoldsArrayResponsesOnly ==
  [][/\ \A r \in 1..MaxRuns, a \in AssetSet :
          /\ SettlesAs(runs[r].kf[a], runs'[r].kf[a]) => KlineSettleEffect(r, a)
          /\ SettlesAs(runs[r].ff[a], runs'[r].ff[a]) => FundingSettleEffect(r, a)
     /\ CachesChangeBySettleOrStart
     /\ \A a \in AssetSet :
          /\ KlineKey(a, KlineInterval, KlineLimit) \in DOMAIN klineCache' =>
               klineCache'[KlineKey(a, KlineInterval, KlineLimit)].sym = a
          /\ a \in DOMAIN fundingCache' => fundingCache'[a].sym = a]_vars

\* One candle fetch has lost both its requests, the other has received a
\* body that is not an array: both have resolved to the empty list and the
\* cache has no entry.
C28_Witness ==
  \E r \in 1..MaxRuns, a, b \in AssetSet :
    /\ runs[r].pc = "klines"
    /\ runs[r].kf[a].st = "resolved" /\ runs[r].kf[a].relay = "failed"
    /\ runs[r].kf[b].st = "resolved" /\ runs[r].kf[b].direct = "ok"
    /\ runs[r].kf[b].val = EmptyKlines
    /\ klineCache = EmptyMap

(***************************************************************************)
(* Progress.  Every transport request eventually succeeds or fails, the    *)
(* event loop runs a continuation that is ready, and React runs the mount  *)
(* effect: as long as one of these steps is possible, one of them is       *)
(* eventually taken.  Nothing makes the user click.                        *)
(***************************************************************************)
\* The steps that wait neither for the user nor for the processors.
Progress ==
  \/ Mount
  \/ \E r \in 1..MaxRuns, a \in AssetSet : KlineDirectResponse(r, a)
  \/ \E r \in 1..MaxRuns, a \in AssetSet : KlineRelayResponse(r, a)
  \/ \E r \in 1..MaxRuns : KlinesBatchDone(r)
  \/ \E r \in 1..MaxRuns, a \in AssetSet : FundingDirectResponse(r, a)
  \/ \E r \in 1..MaxRuns, a \in AssetSet : FundingRelayResponse(r, a)
  \/ fetchDataSettle

\* The continuation of the second Promise.all of run r is ready: this is
\* ENABLED <<FundingBatchDone(r)>>_vars, the step always changing pc.
FundingBatchReady(r) == runs[r].pc = "funding" /\ AllSettled(runs[r].ff)

\* WF_vars(FundingBatchDone(r)), with its enabling condition written out.
FundingBatchFairness(r) ==
  []<>(~FundingBatchReady(r)) \/ []<><<FundingBatchDone(r)>>_vars

Fairness ==
  /\ WF_vars(Progress)
  /\ \A r \in 1..MaxRuns : FundingBatchFairness(r)

SpecLive == Spec /\ Fairness

\* A request of a fetch of some run has been issued and not answered.
RequestPending ==
  \E r \in 1..MaxRuns, a \in AssetSet :
    \/ runs[r].kf[a].st \in {"direct", "relay"}
    \/ runs[r].ff[a].st \in {"direct", "relay"}

\* C29: every refresh settles: whenever loading is set it is eventually
\* reset, which enables the refresh control again, and it stays set for as
\* long as a request of the batch is pending.
C29_RefreshEventuallySettles ==
  /\ [](RequestPending => loading /\ RefreshDisabled)
  /\ (loading ~> (~loading /\ ~RefreshDisabled /\ ~RequestPending))

\* The second refresh has settled after requests of its own: loading is
\* reset and the control is enabled.
C29_Witness ==
  /\ started = MaxRuns
  /\ runs[started].pc = "settled"
  /\ ~loading
  /\ ~RefreshDisabled
  /\ fundingCache # EmptyMap

(***************************************************************************)
(* The engine on its own: getDashboardData is exported and takes no lock,  *)
(* so a caller other than App can invoke it again while an earlier         *)
(* invocation is still awaiting its fetches.                               *)
(***************************************************************************)
\* A call of the exported getDashboardData, at any time.
Invoke ==
  /\ started < MaxRuns
  /\ started' = started + 1
  /\ getDashboardData(started + 1)
  /\ UNCHANGED <<loading, error, now, pin, px>>

\* The exchange answers the direct request of run r with NinetyDays candles,
\* or with a funding history that has a recent observation: the call
\* resolves with the array and the cache entry is written.
KlinesAnswered(r, a) ==
  /\ runs'[r].kf[a].st = "resolved"
  /\ runs'[r].kf[a].val.run = r
  /\ runs'[r].kf[a].val.n = NinetyDays

FundingAnswered(r, a) ==
  /\ runs'[r].ff[a].st = "resolved"
  /\ runs'[r].ff[a].val.run = r
  /\ RecentRates(runs'[r].ff[a].val) # << >>

\* The engine with an exchange that answers every direct request, so that
\* the relay is never asked.
NextEngine ==
  \/ Invoke
  \/ \E r \in 1..MaxRuns, a \in AssetSet :
       KlineDirectResponse(r, a) /\ KlinesAnswered(r, a)
  \/ \E r \in 1..MaxRuns : KlinesBatchDone(r)
  \/ \E r \in 1..MaxRuns, a \in AssetSet :
       FundingDirectResponse(r, a) /\ FundingAnswered(r, a)
  \/ \E r \in 1..MaxRuns : FundingBatchDone(r)

SpecEngine == Init /\ [][NextEngine]_vars

\* The value of a fetch of run r was obtained by a request of run r (or is
\* the empty array of a fetch that had nothing).
OwnData(r, f) == f.val.run \in {0, r}

\* C22: when invocations overlap, no fetch is answered from a cache entry
\* written by another invocation: every candle series and every funding
\* history an invocation holds was obtained by a request it issued itself.
C22_RunsUseOwnData ==
  \A r \in 1..MaxRuns, a \in AssetSet :
    /\ OwnData(r, runs[r].kf[a])
    /\ OwnData(r, runs[r].ff[a])
    /\ a \in DOMAIN runs[r].klinesMap => runs[r].klinesMap[a].run = r
    /\ a \in DOMAIN runs[r].fundingMap => runs[r].fundingMap[a].run = r

\* The part of C22 that holds: a candle fetch is never answered from the
\* cache, because every invocation empties the cache and issues all its
\* candle fetches in the same synchronous step.
C22_CandlesAreOwn ==
  \A r \in 1..MaxRuns, a \in AssetSet :
    /\ ~runs[r].kf[a].hit
    /\ OwnData(r, runs[r].kf[a])
    /\ a \in DOMAIN runs[r].klinesMap => runs[r].klinesMap[a].run = r

\* The first invocation has returned an aggregate computed from a funding
\* history that the second invocation's request obtained.
C22_ForeignFundingUsed ==
  /\ runs[1].pc = "resolved"
  /\ \E a \in AssetSet :
       /\ a \in DOMAIN runs[1].fundingMap
       /\ runs[1].fundingMap[a].run = 2
       /\ runs[1].ff[a].hit

\* The second invocation, started later, has been answered from an entry the
\* first invocation's request wrote after the caches were emptied.
C22_StaleFundingUsed ==
  \E a \in AssetSet :
    /\ runs[2].ff[a].hit
    /\ runs[2].ff[a].val.run = 1

====
